---- MODULE Spec2Model ----
(***************************************************************************)
(* A model of autoAmortize (src/main.py): the header locator, the column   *)
(* label classifier, the month range resolver and the main pipeline that   *)
(* turns one month of a prepayment amortization schedule into journal      *)
(* lines.                                                                  *)
(*                                                                         *)
(* Text is a sequence of characters, so that the regular expressions,      *)
(* str.replace, str.strip, str.lower, str.title and the date parser act    *)
(* on characters as the code does. A character of ASCII is the string      *)
(* of that character; any other character is the string of the bytes of    *)
(* its UTF-8 encoding.                                                     *)
(***************************************************************************)
EXTENDS Integers, Sequences, FiniteSets, TLC

VARIABLES
  \* detect_header_row on its own: the grid given, the grid as it is now,
  \* the value returned, and whether the call has returned
  raw_df0, raw_df, h_result, h_done,
  \* is_month_column and the target prompt's parse on one label: the label,
  \* the form of encoding it is, the month and year it denotes (0 for a
  \* label that denotes none), the two results
  c_col, c_form, c_month, c_year, c_key, c_classified, c_tkey, c_parsed,
  \* main: where the run is, the input file's type and cells, the header
  \* row found, the table, the table before parse_month_cols, the month
  \* range, the last input at the target prompt and its parse, the number
  \* of prompts so far, the prepayments ledger code, the rows still to be
  \* processed, the journal lines, whether the output file was written
  \* and its number, and the unhandled exception
  pc, file_type, sheet, header_row, df, df0, start_idx, end_idx,
  target, target_dt, nprompts, prepay_ledger_code, todo, rows, written, out_idx, exc

hvars == <<raw_df0, raw_df, h_result, h_done>>
cvars == <<c_col, c_form, c_month, c_year, c_key, c_classified, c_tkey, c_parsed>>
mvars == <<pc, file_type, sheet, header_row, df, df0, start_idx, end_idx,
           target, target_dt, nprompts, prepay_ledger_code, todo, rows, written, out_idx, exc>>
vars == <<hvars, cvars, mvars>>

(***************************************************************************)
(* Characters                                                              *)
(***************************************************************************)
\* [A-Z], [a-z] and the digits that str() and strftime() write
UpperSeq == <<"A", "B", "C", "D", "E", "F", "G", "H", "I", "J", "K", "L", "M", "N", "O", "P", "Q", "R", "S", "T", "U", "V", "W", "X", "Y", "Z">>
LowerSeq == <<"a", "b", "c", "d", "e", "f", "g", "h", "i", "j", "k", "l", "m", "n", "o", "p", "q", "r", "s", "t", "u", "v", "w", "x", "y", "z">>
DigitSeq == <<"0", "1", "2", "3", "4", "5", "6", "7", "8", "9">>

Uppers == {UpperSeq[i] : i \in 1..Len(UpperSeq)}
Lowers == {LowerSeq[i] : i \in 1..Len(LowerSeq)}

\* The grave accent and NUL, which a string of this notation cannot hold,
\* are written by their code points
GraveAccent == "U+0060"
Nul == "U+0000"

\* The printable characters of ASCII, none of which is in a table below
\* but for the digits, the space and the case-ignorable ' . : ^ and the
\* grave accent
AsciiPrintable ==
  {
   GraveAccent,
   " ", "!", "\"", "#", "$", "%", "&", "'", "(", ")", "*", "+", ",", "-", ".", "/", "0", "1",
   "2", "3", "4", "5", "6", "7", "8", "9", ":", ";", "<", "=", ">", "?", "@", "A", "B", "C",
   "D", "E", "F", "G", "H", "I", "J", "K", "L", "M", "N", "O", "P", "Q", "R", "S", "T", "U",
   "V", "W", "X", "Y", "Z", "[", "\\", "]", "^", "_", "a", "b", "c", "d", "e", "f", "g", "h",
   "i", "j", "k", "l", "m", "n", "o", "p", "q", "r", "s", "t", "u", "v", "w", "x", "y", "z",
   "{", "|", "}", "~"
  }

\* The characters str.isspace() holds for: str.strip() removes them, \s
\* matches them and the date parser reads each as a space
Whitespace ==
  {
   "\t", "\n", "", "\f", "\r", "", "", "", "", " ", "Â", "Â ", "á", "â", "â",
   "â", "â", "â", "â", "â", "â", "â", "â", "â", "â¨", "â©", "â¯", "â",
   "ã"
  }

\* DecimalDigits[v + 1]: the characters \d matches (category Nd) whose
\* value is v
DecimalDigits ==
  <<
   {
    "0", "Ù ", "Û°", "ß", "à¥¦", "à§¦", "à©¦", "à«¦", "à­¦", "à¯¦", "à±¦", "à³¦", "àµ¦",
    "à·¦", "à¹", "à»", "à¼ ", "á", "á", "á ", "á ", "á¥", "á§", "áª", "áª", "á­",
    "á®°", "á±", "á±", "ê ", "ê£", "ê¤", "ê§", "ê§°", "ê©", "ê¯°", "ï¼", "ð ",
    "ð´°", "ð¦", "ð°", "ð¶", "ð", "ð°", "ð", "ð", "ð", "ð", "ð°",
    "ð£ ", "ð¥", "ð±", "ðµ", "ð¶ ", "ð© ", "ð«", "ð­", "ð", "ð", "ð¢",
    "ð¬", "ð¶", "ð", "ð°", "ð¥", "ð¯°"
   },
   {
    "1", "Ù¡", "Û±", "ß", "à¥§", "à§§", "à©§", "à«§", "à­§", "à¯§", "à±§", "à³§", "àµ§",
    "à·§", "à¹", "à»", "à¼¡", "á", "á", "á¡", "á ", "á¥", "á§", "áª", "áª", "á­",
    "á®±", "á±", "á±", "ê¡", "ê£", "ê¤", "ê§", "ê§±", "ê©", "ê¯±", "ï¼", "ð¡",
    "ð´±", "ð§", "ð±", "ð·", "ð", "ð±", "ð", "ð", "ð", "ð", "ð±",
    "ð£¡", "ð¥", "ð±", "ðµ", "ð¶¡", "ð©¡", "ð«", "ð­", "ð", "ð", "ð£",
    "ð­", "ð·", "ð", "ð±", "ð¥", "ð¯±"
   },
   {
    "2", "Ù¢", "Û²", "ß", "à¥¨", "à§¨", "à©¨", "à«¨", "à­¨", "à¯¨", "à±¨", "à³¨", "àµ¨",
    "à·¨", "à¹", "à»", "à¼¢", "á", "á", "á¢", "á ", "á¥", "á§", "áª", "áª", "á­",
    "á®²", "á±", "á±", "ê¢", "ê£", "ê¤", "ê§", "ê§²", "ê©", "ê¯²", "ï¼", "ð¢",
    "ð´²", "ð¨", "ð²", "ð¸", "ð", "ð²", "ð", "ð", "ð", "ð", "ð²",
    "ð£¢", "ð¥", "ð±", "ðµ", "ð¶¢", "ð©¢", "ð«", "ð­", "ð", "ð", "ð¤",
    "ð®", "ð¸", "ð", "ð²", "ð¥", "ð¯²"
   },
   {
    "3", "Ù£", "Û³", "ß", "à¥©", "à§©", "à©©", "à«©", "à­©", "à¯©", "à±©", "à³©", "àµ©",
    "à·©", "à¹", "à»", "à¼£", "á", "á", "á£", "á ", "á¥", "á§", "áª", "áª", "á­",
    "á®³", "á±", "á±", "ê£", "ê£", "ê¤", "ê§", "ê§³", "ê©", "ê¯³", "ï¼", "ð£",
    "ð´³", "ð©", "ð³", "ð¹", "ð", "ð³", "ð", "ð", "ð", "ð", "ð³",
    "ð££", "ð¥", "ð±", "ðµ", "ð¶£", "ð©£", "ð«", "ð­", "ð", "ð", "ð¥",
    "ð¯", "ð¹", "ð", "ð³", "ð¥", "ð¯³"
   },
   {
    "4", "Ù¤", "Û´", "ß", "à¥ª", "à§ª", "à©ª", "à«ª", "à­ª", "à¯ª", "à±ª", "à³ª", "àµª",
    "à·ª", "à¹", "à»", "à¼¤", "á", "á", "á¤", "á ", "á¥", "á§", "áª", "áª", "á­",
    "á®´", "á±", "á±", "ê¤", "ê£", "ê¤", "ê§", "ê§´", "ê©", "ê¯´", "ï¼", "ð¤",
    "ð´´", "ðª", "ð´", "ðº", "ð", "ð´", "ð", "ð", "ð", "ð", "ð´",
    "ð£¤", "ð¥", "ð±", "ðµ", "ð¶¤", "ð©¤", "ð«", "ð­", "ð", "ð", "ð¦",
    "ð°", "ðº", "ð", "ð´", "ð¥", "ð¯´"
   },
   {
    "5", "Ù¥", "Ûµ", "ß", "à¥«", "à§«", "à©«", "à««", "à­«", "à¯«", "à±«", "à³«", "àµ«",
    "à·«", "à¹", "à»", "à¼¥", "á", "á", "á¥", "á ", "á¥", "á§", "áª", "áª", "á­",
    "á®µ", "á±", "á±", "ê¥", "ê£", "ê¤", "ê§", "ê§µ", "ê©", "ê¯µ", "ï¼", "ð¥",
    "ð´µ", "ð«", "ðµ", "ð»", "ð", "ðµ", "ð", "ð", "ð", "ð", "ðµ",
    "ð£¥", "ð¥", "ð±", "ðµ", "ð¶¥", "ð©¥", "ð«", "ð­", "ð", "ð", "ð§",
    "ð±", "ð»", "ð", "ðµ", "ð¥", "ð¯µ"
   },
   {
    "6", "Ù¦", "Û¶", "ß", "à¥¬", "à§¬", "à©¬", "à«¬", "à­¬", "à¯¬", "à±¬", "à³¬", "àµ¬",
    "à·¬", "à¹", "à»", "à¼¦", "á", "á", "á¦", "á ", "á¥", "á§", "áª", "áª", "á­",
    "á®¶", "á±", "á±", "ê¦", "ê£", "ê¤", "ê§", "ê§¶", "ê©", "ê¯¶", "ï¼", "ð¦",
    "ð´¶", "ð¬", "ð¶", "ð¼", "ð", "ð¶", "ð", "ð", "ð", "ð", "ð¶",
    "ð£¦", "ð¥", "ð±", "ðµ", "ð¶¦", "ð©¦", "ð«", "ð­", "ð", "ð", "ð¨",
    "ð²", "ð¼", "ð", "ð¶", "ð¥", "ð¯¶"
   },
   {
    "7", "Ù§", "Û·", "ß", "à¥­", "à§­", "à©­", "à«­", "à­­", "à¯­", "à±­", "à³­", "àµ­",
    "à·­", "à¹", "à»", "à¼§", "á", "á", "á§", "á ", "á¥", "á§", "áª", "áª", "á­",
    "á®·", "á±", "á±", "ê§", "ê£", "ê¤", "ê§", "ê§·", "ê©", "ê¯·", "ï¼", "ð§",
    "ð´·", "ð­", "ð·", "ð½", "ð", "ð·", "ð", "ð", "ð", "ð", "ð·",
    "ð£§", "ð¥", "ð±", "ðµ", "ð¶§", "ð©§", "ð«", "ð­", "ð", "ð", "ð©",
    "ð³", "ð½", "ð", "ð·", "ð¥", "ð¯·"
   },
   {
    "8", "Ù¨", "Û¸", "ß", "à¥®", "à§®", "à©®", "à«®", "à­®", "à¯®", "à±®", "à³®", "àµ®",
    "à·®", "à¹", "à»", "à¼¨", "á", "á", "á¨", "á ", "á¥", "á§", "áª", "áª", "á­",
    "á®¸", "á±", "á±", "ê¨", "ê£", "ê¤", "ê§", "ê§¸", "ê©", "ê¯¸", "ï¼", "ð¨",
    "ð´¸", "ð®", "ð¸", "ð¾", "ð", "ð¸", "ð", "ð", "ð", "ð", "ð¸",
    "ð£¨", "ð¥", "ð±", "ðµ", "ð¶¨", "ð©¨", "ð«", "ð­", "ð", "ð ", "ðª",
    "ð´", "ð¾", "ð", "ð¸", "ð¥", "ð¯¸"
   },
   {
    "9", "Ù©", "Û¹", "ß", "à¥¯", "à§¯", "à©¯", "à«¯", "à­¯", "à¯¯", "à±¯", "à³¯", "àµ¯",
    "à·¯", "à¹", "à»", "à¼©", "á", "á", "á©", "á ", "á¥", "á§", "áª", "áª", "á­",
    "á®¹", "á±", "á±", "ê©", "ê£", "ê¤", "ê§", "ê§¹", "ê©", "ê¯¹", "ï¼", "ð©",
    "ð´¹", "ð¯", "ð¹", "ð¿", "ð", "ð¹", "ð", "ð", "ð", "ð", "ð¹",
    "ð£©", "ð¥", "ð±", "ðµ", "ð¶©", "ð©©", "ð«", "ð­", "ð", "ð¡", "ð«",
    "ðµ", "ð¿", "ð", "ð¹", "ð¥", "ð¯¹"
   }
  >>

\* The lower-case mapping of the characters outside ASCII that have one
ToLowerFull ==
  {
   <<"Ã", <<"Ã ">>>>, <<"Ã", <<"Ã¡">>>>, <<"Ã", <<"Ã¢">>>>, <<"Ã", <<"Ã£">>>>,
   <<"Ã", <<"Ã¤">>>>, <<"Ã", <<"Ã¥">>>>, <<"Ã", <<"Ã¦">>>>, <<"Ã", <<"Ã§">>>>,
   <<"Ã", <<"Ã¨">>>>, <<"Ã", <<"Ã©">>>>, <<"Ã", <<"Ãª">>>>, <<"Ã", <<"Ã«">>>>,
   <<"Ã", <<"Ã¬">>>>, <<"Ã", <<"Ã­">>>>, <<"Ã", <<"Ã®">>>>, <<"Ã", <<"Ã¯">>>>,
   <<"Ã", <<"Ã°">>>>, <<"Ã", <<"Ã±">>>>, <<"Ã", <<"Ã²">>>>, <<"Ã", <<"Ã³">>>>,
   <<"Ã", <<"Ã´">>>>, <<"Ã", <<"Ãµ">>>>, <<"Ã", <<"Ã¶">>>>, <<"Ã", <<"Ã¸">>>>,
   <<"Ã", <<"Ã¹">>>>, <<"Ã", <<"Ãº">>>>, <<"Ã", <<"Ã»">>>>, <<"Ã", <<"Ã¼">>>>,
   <<"Ã", <<"Ã½">>>>, <<"Ã", <<"Ã¾">>>>, <<"Ä", <<"Ä">>>>, <<"Ä", <<"Ä">>>>,
   <<"Ä", <<"Ä">>>>, <<"Ä", <<"Ä">>>>, <<"Ä", <<"Ä">>>>, <<"Ä", <<"Ä">>>>,
   <<"Ä", <<"Ä">>>>, <<"Ä", <<"Ä">>>>, <<"Ä", <<"Ä">>>>, <<"Ä", <<"Ä">>>>,
   <<"Ä", <<"Ä">>>>, <<"Ä", <<"Ä">>>>, <<"Ä", <<"Ä">>>>, <<"Ä", <<"Ä">>>>,
   <<"Ä", <<"Ä">>>>, <<"Ä", <<"Ä">>>>, <<"Ä ", <<"Ä¡">>>>, <<"Ä¢", <<"Ä£">>>>,
   <<"Ä¤", <<"Ä¥">>>>, <<"Ä¦", <<"Ä§">>>>, <<"Ä¨", <<"Ä©">>>>, <<"Äª", <<"Ä«">>>>,
   <<"Ä¬", <<"Ä­">>>>, <<"Ä®", <<"Ä¯">>>>, <<"Ä°", <<"i", "Ì">>>>, <<"Ä²", <<"Ä³">>>>,
   <<"Ä´", <<"Äµ">>>>, <<"Ä¶", <<"Ä·">>>>, <<"Ä¹", <<"Äº">>>>, <<"Ä»", <<"Ä¼">>>>,
   <<"Ä½", <<"Ä¾">>>>, <<"Ä¿", <<"Å">>>>, <<"Å", <<"Å">>>>, <<"Å", <<"Å">>>>,
   <<"Å", <<"Å">>>>, <<"Å", <<"Å">>>>, <<"Å", <<"Å">>>>, <<"Å", <<"Å">>>>,
   <<"Å", <<"Å">>>>, <<"Å", <<"Å">>>>, <<"Å", <<"Å">>>>, <<"Å", <<"Å">>>>,
   <<"Å", <<"Å">>>>, <<"Å", <<"Å">>>>, <<"Å", <<"Å">>>>, <<"Å", <<"Å">>>>,
   <<"Å", <<"Å">>>>, <<"Å ", <<"Å¡">>>>, <<"Å¢", <<"Å£">>>>, <<"Å¤", <<"Å¥">>>>,
   <<"Å¦", <<"Å§">>>>, <<"Å¨", <<"Å©">>>>, <<"Åª", <<"Å«">>>>, <<"Å¬", <<"Å­">>>>,
   <<"Å®", <<"Å¯">>>>, <<"Å°", <<"Å±">>>>, <<"Å²", <<"Å³">>>>, <<"Å´", <<"Åµ">>>>,
   <<"Å¶", <<"Å·">>>>, <<"Å¸", <<"Ã¿">>>>, <<"Å¹", <<"Åº">>>>, <<"Å»", <<"Å¼">>>>,
   <<"Å½", <<"Å¾">>>>, <<"Æ", <<"É">>>>, <<"Æ", <<"Æ">>>>, <<"Æ", <<"Æ">>>>,
   <<"Æ", <<"É">>>>, <<"Æ", <<"Æ">>>>, <<"Æ", <<"É">>>>, <<"Æ", <<"É">>>>,
   <<"Æ", <<"Æ">>>>, <<"Æ", <<"Ç">>>>, <<"Æ", <<"É">>>>, <<"Æ", <<"É">>>>,
   <<"Æ", <<"Æ">>>>, <<"Æ", <<"É ">>>>, <<"Æ", <<"É£">>>>, <<"Æ", <<"É©">>>>,
   <<"Æ", <<"É¨">>>>, <<"Æ", <<"Æ">>>>, <<"Æ", <<"É¯">>>>, <<"Æ", <<"É²">>>>,
   <<"Æ", <<"Éµ">>>>, <<"Æ ", <<"Æ¡">>>>, <<"Æ¢", <<"Æ£">>>>, <<"Æ¤", <<"Æ¥">>>>,
   <<"Æ¦", <<"Ê">>>>, <<"Æ§", <<"Æ¨">>>>, <<"Æ©", <<"Ê">>>>, <<"Æ¬", <<"Æ­">>>>,
   <<"Æ®", <<"Ê">>>>, <<"Æ¯", <<"Æ°">>>>, <<"Æ±", <<"Ê">>>>, <<"Æ²", <<"Ê">>>>,
   <<"Æ³", <<"Æ´">>>>, <<"Æµ", <<"Æ¶">>>>, <<"Æ·", <<"Ê">>>>, <<"Æ¸", <<"Æ¹">>>>,
   <<"Æ¼", <<"Æ½">>>>, <<"Ç", <<"Ç">>>>, <<"Ç", <<"Ç">>>>, <<"Ç", <<"Ç">>>>,
   <<"Ç", <<"Ç">>>>, <<"Ç", <<"Ç">>>>, <<"Ç", <<"Ç">>>>, <<"Ç", <<"Ç">>>>,
   <<"Ç", <<"Ç">>>>, <<"Ç", <<"Ç">>>>, <<"Ç", <<"Ç">>>>, <<"Ç", <<"Ç">>>>,
   <<"Ç", <<"Ç">>>>, <<"Ç", <<"Ç">>>>, <<"Ç", <<"Ç">>>>, <<"Ç", <<"Ç">>>>,
   <<"Ç ", <<"Ç¡">>>>, <<"Ç¢", <<"Ç£">>>>, <<"Ç¤", <<"Ç¥">>>>, <<"Ç¦", <<"Ç§">>>>,
   <<"Ç¨", <<"Ç©">>>>, <<"Çª", <<"Ç«">>>>, <<"Ç¬", <<"Ç­">>>>, <<"Ç®", <<"Ç¯">>>>,
   <<"Ç±", <<"Ç³">>>>, <<"Ç²", <<"Ç³">>>>, <<"Ç´", <<"Çµ">>>>, <<"Ç¶", <<"Æ">>>>,
   <<"Ç·", <<"Æ¿">>>>, <<"Ç¸", <<"Ç¹">>>>, <<"Çº", <<"Ç»">>>>, <<"Ç¼", <<"Ç½">>>>,
   <<"Ç¾", <<"Ç¿">>>>, <<"È", <<"È">>>>, <<"È", <<"È">>>>, <<"È", <<"È">>>>,
   <<"È", <<"È">>>>, <<"È", <<"È">>>>, <<"È", <<"È">>>>, <<"È", <<"È">>>>,
   <<"È", <<"È">>>>, <<"È", <<"È">>>>, <<"È", <<"È">>>>, <<"È", <<"È">>>>,
   <<"È", <<"È">>>>, <<"È", <<"È">>>>, <<"È", <<"È">>>>, <<"È", <<"È">>>>,
   <<"È", <<"È">>>>, <<"È ", <<"Æ">>>>, <<"È¢", <<"È£">>>>, <<"È¤", <<"È¥">>>>,
   <<"È¦", <<"È§">>>>, <<"È¨", <<"È©">>>>, <<"Èª", <<"È«">>>>, <<"È¬", <<"È­">>>>,
   <<"È®", <<"È¯">>>>, <<"È°", <<"È±">>>>, <<"È²", <<"È³">>>>, <<"Èº", <<"â±¥">>>>,
   <<"È»", <<"È¼">>>>, <<"È½", <<"Æ">>>>, <<"È¾", <<"â±¦">>>>, <<"É", <<"É">>>>,
   <<"É", <<"Æ">>>>, <<"É", <<"Ê">>>>, <<"É", <<"Ê">>>>, <<"É", <<"É">>>>,
   <<"É", <<"É">>>>, <<"É", <<"É">>>>, <<"É", <<"É">>>>, <<"É", <<"É">>>>,
   <<"Í°", <<"Í±">>>>, <<"Í²", <<"Í³">>>>, <<"Í¶", <<"Í·">>>>, <<"Í¿", <<"Ï³">>>>,
   <<"Î", <<"Î¬">>>>, <<"Î", <<"Î­">>>>, <<"Î", <<"Î®">>>>, <<"Î", <<"Î¯">>>>,
   <<"Î", <<"Ï">>>>, <<"Î", <<"Ï">>>>, <<"Î", <<"Ï">>>>, <<"Î", <<"Î±">>>>,
   <<"Î", <<"Î²">>>>, <<"Î", <<"Î³">>>>, <<"Î", <<"Î´">>>>, <<"Î", <<"Îµ">>>>,
   <<"Î", <<"Î¶">>>>, <<"Î", <<"Î·">>>>, <<"Î", <<"Î¸">>>>, <<"Î", <<"Î¹">>>>,
   <<"Î", <<"Îº">>>>, <<"Î", <<"Î»">>>>, <<"Î", <<"Î¼">>>>, <<"Î", <<"Î½">>>>,
   <<"Î", <<"Î¾">>>>, <<"Î", <<"Î¿">>>>, <<"Î ", <<"Ï">>>>, <<"Î¡", <<"Ï">>>>,
   <<"Î£", <<"Ï">>>>, <<"Î¤", <<"Ï">>>>, <<"Î¥", <<"Ï">>>>, <<"Î¦", <<"Ï">>>>,
   <<"Î§", <<"Ï">>>>, <<"Î¨", <<"Ï">>>>, <<"Î©", <<"Ï">>>>, <<"Îª", <<"Ï">>>>,
   <<"Î«", <<"Ï">>>>, <<"Ï", <<"Ï">>>>, <<"Ï", <<"Ï">>>>, <<"Ï", <<"Ï">>>>,
   <<"Ï", <<"Ï">>>>, <<"Ï", <<"Ï">>>>, <<"Ï ", <<"Ï¡">>>>, <<"Ï¢", <<"Ï£">>>>,
   <<"Ï¤", <<"Ï¥">>>>, <<"Ï¦", <<"Ï§">>>>, <<"Ï¨", <<"Ï©">>>>, <<"Ïª", <<"Ï«">>>>,
   <<"Ï¬", <<"Ï­">>>>, <<"Ï®", <<"Ï¯">>>>, <<"Ï´", <<"Î¸">>>>, <<"Ï·", <<"Ï¸">>>>,
   <<"Ï¹", <<"Ï²">>>>, <<"Ïº", <<"Ï»">>>>, <<"Ï½", <<"Í»">>>>, <<"Ï¾", <<"Í¼">>>>,
   <<"Ï¿", <<"Í½">>>>, <<"Ð", <<"Ñ">>>>, <<"Ð", <<"Ñ">>>>, <<"Ð", <<"Ñ">>>>,
   <<"Ð", <<"Ñ">>>>, <<"Ð", <<"Ñ">>>>, <<"Ð", <<"Ñ">>>>, <<"Ð", <<"Ñ">>>>,
   <<"Ð", <<"Ñ">>>>, <<"Ð", <<"Ñ">>>>, <<"Ð", <<"Ñ">>>>, <<"Ð", <<"Ñ">>>>,
   <<"Ð", <<"Ñ">>>>, <<"Ð", <<"Ñ">>>>, <<"Ð", <<"Ñ">>>>, <<"Ð", <<"Ñ">>>>,
   <<"Ð", <<"Ñ">>>>, <<"Ð", <<"Ð°">>>>, <<"Ð", <<"Ð±">>>>, <<"Ð", <<"Ð²">>>>,
   <<"Ð", <<"Ð³">>>>, <<"Ð", <<"Ð´">>>>, <<"Ð", <<"Ðµ">>>>, <<"Ð", <<"Ð¶">>>>,
   <<"Ð", <<"Ð·">>>>, <<"Ð", <<"Ð¸">>>>, <<"Ð", <<"Ð¹">>>>, <<"Ð", <<"Ðº">>>>,
   <<"Ð", <<"Ð»">>>>, <<"Ð", <<"Ð¼">>>>, <<"Ð", <<"Ð½">>>>, <<"Ð", <<"Ð¾">>>>,
   <<"Ð", <<"Ð¿">>>>, <<"Ð ", <<"Ñ">>>>, <<"Ð¡", <<"Ñ">>>>, <<"Ð¢", <<"Ñ">>>>,
   <<"Ð£", <<"Ñ">>>>, <<"Ð¤", <<"Ñ">>>>, <<"Ð¥", <<"Ñ">>>>, <<"Ð¦", <<"Ñ">>>>,
   <<"Ð§", <<"Ñ">>>>, <<"Ð¨", <<"Ñ">>>>, <<"Ð©", <<"Ñ">>>>, <<"Ðª", <<"Ñ">>>>,
   <<"Ð«", <<"Ñ">>>>, <<"Ð¬", <<"Ñ">>>>, <<"Ð­", <<"Ñ">>>>, <<"Ð®", <<"Ñ">>>>,
   <<"Ð¯", <<"Ñ">>>>, <<"Ñ ", <<"Ñ¡">>>>, <<"Ñ¢", <<"Ñ£">>>>, <<"Ñ¤", <<"Ñ¥">>>>,
   <<"Ñ¦", <<"Ñ§">>>>, <<"Ñ¨", <<"Ñ©">>>>, <<"Ñª", <<"Ñ«">>>>, <<"Ñ¬", <<"Ñ­">>>>,
   <<"Ñ®", <<"Ñ¯">>>>, <<"Ñ°", <<"Ñ±">>>>, <<"Ñ²", <<"Ñ³">>>>, <<"Ñ´", <<"Ñµ">>>>,
   <<"Ñ¶", <<"Ñ·">>>>, <<"Ñ¸", <<"Ñ¹">>>>, <<"Ñº", <<"Ñ»">>>>, <<"Ñ¼", <<"Ñ½">>>>,
   <<"Ñ¾", <<"Ñ¿">>>>, <<"Ò", <<"Ò">>>>, <<"Ò", <<"Ò">>>>, <<"Ò", <<"Ò">>>>,
   <<"Ò", <<"Ò">>>>, <<"Ò", <<"Ò">>>>, <<"Ò", <<"Ò">>>>, <<"Ò", <<"Ò">>>>,
   <<"Ò", <<"Ò">>>>, <<"Ò", <<"Ò">>>>, <<"Ò", <<"Ò">>>>, <<"Ò", <<"Ò">>>>,
   <<"Ò", <<"Ò">>>>, <<"Ò ", <<"Ò¡">>>>, <<"Ò¢", <<"Ò£">>>>, <<"Ò¤", <<"Ò¥">>>>,
   <<"Ò¦", <<"Ò§">>>>, <<"Ò¨", <<"Ò©">>>>, <<"Òª", <<"Ò«">>>>, <<"Ò¬", <<"Ò­">>>>,
   <<"Ò®", <<"Ò¯">>>>, <<"Ò°", <<"Ò±">>>>, <<"Ò²", <<"Ò³">>>>, <<"Ò´", <<"Òµ">>>>,
   <<"Ò¶", <<"Ò·">>>>, <<"Ò¸", <<"Ò¹">>>>, <<"Òº", <<"Ò»">>>>, <<"Ò¼", <<"Ò½">>>>,
   <<"Ò¾", <<"Ò¿">>>>, <<"Ó", <<"Ó">>>>, <<"Ó", <<"Ó">>>>, <<"Ó", <<"Ó">>>>,
   <<"Ó", <<"Ó">>>>, <<"Ó", <<"Ó">>>>, <<"Ó", <<"Ó">>>>, <<"Ó", <<"Ó">>>>,
   <<"Ó", <<"Ó">>>>, <<"Ó", <<"Ó">>>>, <<"Ó", <<"Ó">>>>, <<"Ó", <<"Ó">>>>,
   <<"Ó", <<"Ó">>>>, <<"Ó", <<"Ó">>>>, <<"Ó", <<"Ó">>>>, <<"Ó", <<"Ó">>>>,
   <<"Ó", <<"Ó">>>>, <<"Ó ", <<"Ó¡">>>>, <<"Ó¢", <<"Ó£">>>>, <<"Ó¤", <<"Ó¥">>>>,
   <<"Ó¦", <<"Ó§">>>>, <<"Ó¨", <<"Ó©">>>>, <<"Óª", <<"Ó«">>>>, <<"Ó¬", <<"Ó­">>>>,
   <<"Ó®", <<"Ó¯">>>>, <<"Ó°", <<"Ó±">>>>, <<"Ó²", <<"Ó³">>>>, <<"Ó´", <<"Óµ">>>>,
   <<"Ó¶", <<"Ó·">>>>, <<"Ó¸", <<"Ó¹">>>>, <<"Óº", <<"Ó»">>>>, <<"Ó¼", <<"Ó½">>>>,
   <<"Ó¾", <<"Ó¿">>>>, <<"Ô", <<"Ô">>>>, <<"Ô", <<"Ô">>>>, <<"Ô", <<"Ô">>>>,
   <<"Ô", <<"Ô">>>>, <<"Ô", <<"Ô">>>>, <<"Ô", <<"Ô">>>>, <<"Ô", <<"Ô">>>>,
   <<"Ô", <<"Ô">>>>, <<"Ô", <<"Ô">>>>, <<"Ô", <<"Ô">>>>, <<"Ô", <<"Ô">>>>,
   <<"Ô", <<"Ô">>>>, <<"Ô", <<"Ô">>>>, <<"Ô", <<"Ô">>>>, <<"Ô", <<"Ô">>>>,
   <<"Ô", <<"Ô">>>>, <<"Ô ", <<"Ô¡">>>>, <<"Ô¢", <<"Ô£">>>>, <<"Ô¤", <<"Ô¥">>>>,
   <<"Ô¦", <<"Ô§">>>>, <<"Ô¨", <<"Ô©">>>>, <<"Ôª", <<"Ô«">>>>, <<"Ô¬", <<"Ô­">>>>,
   <<"Ô®", <<"Ô¯">>>>, <<"Ô±", <<"Õ¡">>>>, <<"Ô²", <<"Õ¢">>>>, <<"Ô³", <<"Õ£">>>>,
   <<"Ô´", <<"Õ¤">>>>, <<"Ôµ", <<"Õ¥">>>>, <<"Ô¶", <<"Õ¦">>>>, <<"Ô·", <<"Õ§">>>>,
   <<"Ô¸", <<"Õ¨">>>>, <<"Ô¹", <<"Õ©">>>>, <<"Ôº", <<"Õª">>>>, <<"Ô»", <<"Õ«">>>>,
   <<"Ô¼", <<"Õ¬">>>>, <<"Ô½", <<"Õ­">>>>, <<"Ô¾", <<"Õ®">>>>, <<"Ô¿", <<"Õ¯">>>>,
   <<"Õ", <<"Õ°">>>>, <<"Õ", <<"Õ±">>>>, <<"Õ", <<"Õ²">>>>, <<"Õ", <<"Õ³">>>>,
   <<"Õ", <<"Õ´">>>>, <<"Õ", <<"Õµ">>>>, <<"Õ", <<"Õ¶">>>>, <<"Õ", <<"Õ·">>>>,
   <<"Õ", <<"Õ¸">>>>, <<"Õ", <<"Õ¹">>>>, <<"Õ", <<"Õº">>>>, <<"Õ", <<"Õ»">>>>,
   <<"Õ", <<"Õ¼">>>>, <<"Õ", <<"Õ½">>>>, <<"Õ", <<"Õ¾">>>>, <<"Õ", <<"Õ¿">>>>,
   <<"Õ", <<"Ö">>>>, <<"Õ", <<"Ö">>>>, <<"Õ", <<"Ö">>>>, <<"Õ", <<"Ö">>>>,
   <<"Õ", <<"Ö">>>>, <<"Õ", <<"Ö">>>>, <<"Õ", <<"Ö">>>>, <<"á ", <<"â´">>>>,
   <<"á¡", <<"â´">>>>, <<"á¢", <<"â´">>>>, <<"á£", <<"â´">>>>, <<"á¤", <<"â´">>>>,
   <<"á¥", <<"â´">>>>, <<"á¦", <<"â´">>>>, <<"á§", <<"â´">>>>, <<"á¨", <<"â´">>>>,
   <<"á©", <<"â´">>>>, <<"áª", <<"â´">>>>, <<"á«", <<"â´">>>>, <<"á¬", <<"â´">>>>,
   <<"á­", <<"â´">>>>, <<"á®", <<"â´">>>>, <<"á¯", <<"â´">>>>, <<"á°", <<"â´">>>>,
   <<"á±", <<"â´">>>>, <<"á²", <<"â´">>>>, <<"á³", <<"â´">>>>, <<"á´", <<"â´">>>>,
   <<"áµ", <<"â´">>>>, <<"á¶", <<"â´">>>>, <<"á·", <<"â´">>>>, <<"á¸", <<"â´">>>>,
   <<"á¹", <<"â´">>>>, <<"áº", <<"â´">>>>, <<"á»", <<"â´">>>>, <<"á¼", <<"â´">>>>,
   <<"á½", <<"â´">>>>, <<"á¾", <<"â´">>>>, <<"á¿", <<"â´">>>>, <<"á", <<"â´ ">>>>,
   <<"á", <<"â´¡">>>>, <<"á", <<"â´¢">>>>, <<"á", <<"â´£">>>>, <<"á", <<"â´¤">>>>,
   <<"á", <<"â´¥">>>>, <<"á", <<"â´§">>>>, <<"á", <<"â´­">>>>, <<"á ", <<"ê­°">>>>,
   <<"á¡", <<"ê­±">>>>, <<"á¢", <<"ê­²">>>>, <<"á£", <<"ê­³">>>>, <<"á¤", <<"ê­´">>>>,
   <<"á¥", <<"ê­µ">>>>, <<"á¦", <<"ê­¶">>>>, <<"á§", <<"ê­·">>>>, <<"á¨", <<"ê­¸">>>>,
   <<"á©", <<"ê­¹">>>>, <<"áª", <<"ê­º">>>>, <<"á«", <<"ê­»">>>>, <<"á¬", <<"ê­¼">>>>,
   <<"á­", <<"ê­½">>>>, <<"á®", <<"ê­¾">>>>, <<"á¯", <<"ê­¿">>>>, <<"á°", <<"ê®">>>>,
   <<"á±", <<"ê®">>>>, <<"á²", <<"ê®">>>>, <<"á³", <<"ê®">>>>, <<"á´", <<"ê®">>>>,
   <<"áµ", <<"ê®">>>>, <<"á¶", <<"ê®">>>>, <<"á·", <<"ê®">>>>, <<"á¸", <<"ê®">>>>,
   <<"á¹", <<"ê®">>>>, <<"áº", <<"ê®">>>>, <<"á»", <<"ê®">>>>, <<"á¼", <<"ê®">>>>,
   <<"á½", <<"ê®">>>>, <<"á¾", <<"ê®">>>>, <<"á¿", <<"ê®">>>>, <<"á", <<"ê®">>>>,
   <<"á", <<"ê®">>>>, <<"á", <<"ê®">>>>, <<"á", <<"ê®">>>>, <<"á", <<"ê®">>>>,
   <<"á", <<"ê®">>>>, <<"á", <<"ê®">>>>, <<"á", <<"ê®">>>>, <<"á", <<"ê®">>>>,
   <<"á", <<"ê®">>>>, <<"á", <<"ê®">>>>, <<"á", <<"ê®">>>>, <<"á", <<"ê®">>>>,
   <<"á", <<"ê®">>>>, <<"á", <<"ê®">>>>, <<"á", <<"ê®">>>>, <<"á", <<"ê® ">>>>,
   <<"á", <<"ê®¡">>>>, <<"á", <<"ê®¢">>>>, <<"á", <<"ê®£">>>>, <<"á", <<"ê®¤">>>>,
   <<"á", <<"ê®¥">>>>, <<"á", <<"ê®¦">>>>, <<"á", <<"ê®§">>>>, <<"á", <<"ê®¨">>>>,
   <<"á", <<"ê®©">>>>, <<"á", <<"ê®ª">>>>, <<"á", <<"ê®«">>>>, <<"á", <<"ê®¬">>>>,
   <<"á", <<"ê®­">>>>, <<"á", <<"ê®®">>>>, <<"á", <<"ê®¯">>>>, <<"á ", <<"ê®°">>>>,
   <<"á¡", <<"ê®±">>>>, <<"á¢", <<"ê®²">>>>, <<"á£", <<"ê®³">>>>, <<"á¤", <<"ê®´">>>>,
   <<"á¥", <<"ê®µ">>>>, <<"á¦", <<"ê®¶">>>>, <<"á§", <<"ê®·">>>>, <<"á¨", <<"ê®¸">>>>,
   <<"á©", <<"ê®¹">>>>, <<"áª", <<"ê®º">>>>, <<"á«", <<"ê®»">>>>, <<"á¬", <<"ê®¼">>>>,
   <<"á­", <<"ê®½">>>>, <<"á®", <<"ê®¾">>>>, <<"á¯", <<"ê®¿">>>>, <<"á°", <<"á¸">>>>,
   <<"á±", <<"á¹">>>>, <<"á²", <<"áº">>>>, <<"á³", <<"á»">>>>, <<"á´", <<"á¼">>>>,
   <<"áµ", <<"á½">>>>, <<"á²", <<"á">>>>, <<"á²", <<"á">>>>, <<"á²", <<"á">>>>,
   <<"á²", <<"á">>>>, <<"á²", <<"á">>>>, <<"á²", <<"á">>>>, <<"á²", <<"á">>>>,
   <<"á²", <<"á">>>>, <<"á²", <<"á">>>>, <<"á²", <<"á">>>>, <<"á²", <<"á">>>>,
   <<"á²", <<"á">>>>, <<"á²", <<"á">>>>, <<"á²", <<"á">>>>, <<"á²", <<"á">>>>,
   <<"á²", <<"á">>>>, <<"á² ", <<"á ">>>>, <<"á²¡", <<"á¡">>>>, <<"á²¢", <<"á¢">>>>,
   <<"á²£", <<"á£">>>>, <<"á²¤", <<"á¤">>>>, <<"á²¥", <<"á¥">>>>, <<"á²¦", <<"á¦">>>>,
   <<"á²§", <<"á§">>>>, <<"á²¨", <<"á¨">>>>, <<"á²©", <<"á©">>>>, <<"á²ª", <<"áª">>>>,
   <<"á²«", <<"á«">>>>, <<"á²¬", <<"á¬">>>>, <<"á²­", <<"á­">>>>, <<"á²®", <<"á®">>>>,
   <<"á²¯", <<"á¯">>>>, <<"á²°", <<"á°">>>>, <<"á²±", <<"á±">>>>, <<"á²²", <<"á²">>>>,
   <<"á²³", <<"á³">>>>, <<"á²´", <<"á´">>>>, <<"á²µ", <<"áµ">>>>, <<"á²¶", <<"á¶">>>>,
   <<"á²·", <<"á·">>>>, <<"á²¸", <<"á¸">>>>, <<"á²¹", <<"á¹">>>>, <<"á²º", <<"áº">>>>,
   <<"á²½", <<"á½">>>>, <<"á²¾", <<"á¾">>>>, <<"á²¿", <<"á¿">>>>, <<"á¸", <<"á¸">>>>,
   <<"á¸", <<"á¸">>>>, <<"á¸", <<"á¸">>>>, <<"á¸", <<"á¸">>>>, <<"á¸", <<"á¸">>>>,
   <<"á¸", <<"á¸">>>>, <<"á¸", <<"á¸">>>>, <<"á¸", <<"á¸">>>>, <<"á¸", <<"á¸">>>>,
   <<"á¸", <<"á¸">>>>, <<"á¸", <<"á¸">>>>, <<"á¸", <<"á¸">>>>, <<"á¸", <<"á¸">>>>,
   <<"á¸", <<"á¸">>>>, <<"á¸", <<"á¸">>>>, <<"á¸", <<"á¸">>>>, <<"á¸ ", <<"á¸¡">>>>,
   <<"á¸¢", <<"á¸£">>>>, <<"á¸¤", <<"á¸¥">>>>, <<"á¸¦", <<"á¸§">>>>, <<"á¸¨", <<"á¸©">>>>,
   <<"á¸ª", <<"á¸«">>>>, <<"á¸¬", <<"á¸­">>>>, <<"á¸®", <<"á¸¯">>>>, <<"á¸°", <<"á¸±">>>>,
   <<"á¸²", <<"á¸³">>>>, <<"á¸´", <<"á¸µ">>>>, <<"á¸¶", <<"á¸·">>>>, <<"á¸¸", <<"á¸¹">>>>,
   <<"á¸º", <<"á¸»">>>>, <<"á¸¼", <<"á¸½">>>>, <<"á¸¾", <<"á¸¿">>>>, <<"á¹", <<"á¹">>>>,
   <<"á¹", <<"á¹">>>>, <<"á¹", <<"á¹">>>>, <<"á¹", <<"á¹">>>>, <<"á¹", <<"á¹">>>>,
   <<"á¹", <<"á¹">>>>, <<"á¹", <<"á¹">>>>, <<"á¹", <<"á¹">>>>, <<"á¹", <<"á¹">>>>,
   <<"á¹", <<"á¹">>>>, <<"á¹", <<"á¹">>>>, <<"á¹", <<"á¹">>>>, <<"á¹", <<"á¹">>>>,
   <<"á¹", <<"á¹">>>>, <<"á¹", <<"á¹">>>>, <<"á¹", <<"á¹">>>>, <<"á¹ ", <<"á¹¡">>>>,
   <<"á¹¢", <<"á¹£">>>>, <<"á¹¤", <<"á¹¥">>>>, <<"á¹¦", <<"á¹§">>>>, <<"á¹¨", <<"á¹©">>>>,
   <<"á¹ª", <<"á¹«">>>>, <<"á¹¬", <<"á¹­">>>>, <<"á¹®", <<"á¹¯">>>>, <<"á¹°", <<"á¹±">>>>,
   <<"á¹²", <<"á¹³">>>>, <<"á¹´", <<"á¹µ">>>>, <<"á¹¶", <<"á¹·">>>>, <<"á¹¸", <<"á¹¹">>>>,
   <<"á¹º", <<"á¹»">>>>, <<"á¹¼", <<"á¹½">>>>, <<"á¹¾", <<"á¹¿">>>>, <<"áº", <<"áº">>>>,
   <<"áº", <<"áº">>>>, <<"áº", <<"áº">>>>, <<"áº", <<"áº">>>>, <<"áº", <<"áº">>>>,
   <<"áº", <<"áº">>>>, <<"áº", <<"áº">>>>, <<"áº", <<"áº">>>>, <<"áº", <<"áº">>>>,
   <<"áº", <<"áº">>>>, <<"áº", <<"áº">>>>, <<"áº", <<"Ã">>>>, <<"áº ", <<"áº¡">>>>,
   <<"áº¢", <<"áº£">>>>, <<"áº¤", <<"áº¥">>>>, <<"áº¦", <<"áº§">>>>, <<"áº¨", <<"áº©">>>>,
   <<"áºª", <<"áº«">>>>, <<"áº¬", <<"áº­">>>>, <<"áº®", <<"áº¯">>>>, <<"áº°", <<"áº±">>>>,
   <<"áº²", <<"áº³">>>>, <<"áº´", <<"áºµ">>>>, <<"áº¶", <<"áº·">>>>, <<"áº¸", <<"áº¹">>>>,
   <<"áºº", <<"áº»">>>>, <<"áº¼", <<"áº½">>>>, <<"áº¾", <<"áº¿">>>>, <<"á»", <<"á»">>>>,
   <<"á»", <<"á»">>>>, <<"á»", <<"á»">>>>, <<"á»", <<"á»">>>>, <<"á»", <<"á»">>>>,
   <<"á»", <<"á»">>>>, <<"á»", <<"á»">>>>, <<"á»", <<"á»">>>>, <<"á»", <<"á»">>>>,
   <<"á»", <<"á»">>>>, <<"á»", <<"á»">>>>, <<"á»", <<"á»">>>>, <<"á»", <<"á»">>>>,
   <<"á»", <<"á»">>>>, <<"á»", <<"á»">>>>, <<"á»", <<"á»">>>>, <<"á» ", <<"á»¡">>>>,
   <<"á»¢", <<"á»£">>>>, <<"á»¤", <<"á»¥">>>>, <<"á»¦", <<"á»§">>>>, <<"á»¨", <<"á»©">>>>,
   <<"á»ª", <<"á»«">>>>, <<"á»¬", <<"á»­">>>>, <<"á»®", <<"á»¯">>>>, <<"á»°", <<"á»±">>>>,
   <<"á»²", <<"á»³">>>>, <<"á»´", <<"á»µ">>>>, <<"á»¶", <<"á»·">>>>, <<"á»¸", <<"á»¹">>>>,
   <<"á»º", <<"á»»">>>>, <<"á»¼", <<"á»½">>>>, <<"á»¾", <<"á»¿">>>>, <<"á¼", <<"á¼">>>>,
   <<"á¼", <<"á¼">>>>, <<"á¼", <<"á¼">>>>, <<"á¼", <<"á¼">>>>, <<"á¼", <<"á¼">>>>,
   <<"á¼", <<"á¼">>>>, <<"á¼", <<"á¼">>>>, <<"á¼", <<"á¼">>>>, <<"á¼", <<"á¼">>>>,
   <<"á¼", <<"á¼">>>>, <<"á¼", <<"á¼">>>>, <<"á¼", <<"á¼">>>>, <<"á¼", <<"á¼">>>>,
   <<"á¼", <<"á¼">>>>, <<"á¼¨", <<"á¼ ">>>>, <<"á¼©", <<"á¼¡">>>>, <<"á¼ª", <<"á¼¢">>>>,
   <<"á¼«", <<"á¼£">>>>, <<"á¼¬", <<"á¼¤">>>>, <<"á¼­", <<"á¼¥">>>>, <<"á¼®", <<"á¼¦">>>>,
   <<"á¼¯", <<"á¼§">>>>, <<"á¼¸", <<"á¼°">>>>, <<"á¼¹", <<"á¼±">>>>, <<"á¼º", <<"á¼²">>>>,
   <<"á¼»", <<"á¼³">>>>, <<"á¼¼", <<"á¼´">>>>, <<"á¼½", <<"á¼µ">>>>, <<"á¼¾", <<"á¼¶">>>>,
   <<"á¼¿", <<"á¼·">>>>, <<"á½", <<"á½">>>>, <<"á½", <<"á½">>>>, <<"á½", <<"á½">>>>,
   <<"á½", <<"á½">>>>, <<"á½", <<"á½">>>>, <<"á½", <<"á½">>>>, <<"á½", <<"á½">>>>,
   <<"á½", <<"á½">>>>, <<"á½", <<"á½">>>>, <<"á½", <<"á½">>>>, <<"á½¨", <<"á½ ">>>>,
   <<"á½©", <<"á½¡">>>>, <<"á½ª", <<"á½¢">>>>, <<"á½«", <<"á½£">>>>, <<"á½¬", <<"á½¤">>>>,
   <<"á½­", <<"á½¥">>>>, <<"á½®", <<"á½¦">>>>, <<"á½¯", <<"á½§">>>>, <<"á¾", <<"á¾">>>>,
   <<"á¾", <<"á¾">>>>, <<"á¾", <<"á¾">>>>, <<"á¾", <<"á¾">>>>, <<"á¾", <<"á¾">>>>,
   <<"á¾", <<"á¾">>>>, <<"á¾", <<"á¾">>>>, <<"á¾", <<"á¾">>>>, <<"á¾", <<"á¾">>>>,
   <<"á¾", <<"á¾">>>>, <<"á¾", <<"á¾">>>>, <<"á¾", <<"á¾">>>>, <<"á¾", <<"á¾">>>>,
   <<"á¾", <<"á¾">>>>, <<"á¾", <<"á¾">>>>, <<"á¾", <<"á¾">>>>, <<"á¾¨", <<"á¾ ">>>>,
   <<"á¾©", <<"á¾¡">>>>, <<"á¾ª", <<"á¾¢">>>>, <<"á¾«", <<"á¾£">>>>, <<"á¾¬", <<"á¾¤">>>>,
   <<"á¾­", <<"á¾¥">>>>, <<"á¾®", <<"á¾¦">>>>, <<"á¾¯", <<"á¾§">>>>, <<"á¾¸", <<"á¾°">>>>,
   <<"á¾¹", <<"á¾±">>>>, <<"á¾º", <<"á½°">>>>, <<"á¾»", <<"á½±">>>>, <<"á¾¼", <<"á¾³">>>>,
   <<"á¿", <<"á½²">>>>, <<"á¿", <<"á½³">>>>, <<"á¿", <<"á½´">>>>, <<"á¿", <<"á½µ">>>>,
   <<"á¿", <<"á¿">>>>, <<"á¿", <<"á¿">>>>, <<"á¿", <<"á¿">>>>, <<"á¿", <<"á½¶">>>>,
   <<"á¿", <<"á½·">>>>, <<"á¿¨", <<"á¿ ">>>>, <<"á¿©", <<"á¿¡">>>>, <<"á¿ª", <<"á½º">>>>,
   <<"á¿«", <<"á½»">>>>, <<"á¿¬", <<"á¿¥">>>>, <<"á¿¸", <<"á½¸">>>>, <<"á¿¹", <<"á½¹">>>>,
   <<"á¿º", <<"á½¼">>>>, <<"á¿»", <<"á½½">>>>, <<"á¿¼", <<"á¿³">>>>, <<"â¦", <<"Ï">>>>,
   <<"âª", <<"k">>>>, <<"â«", <<"Ã¥">>>>, <<"â²", <<"â">>>>, <<"â ", <<"â°">>>>,
   <<"â¡", <<"â±">>>>, <<"â¢", <<"â²">>>>, <<"â£", <<"â³">>>>, <<"â¤", <<"â´">>>>,
   <<"â¥", <<"âµ">>>>, <<"â¦", <<"â¶">>>>, <<"â§", <<"â·">>>>, <<"â¨", <<"â¸">>>>,
   <<"â©", <<"â¹">>>>, <<"âª", <<"âº">>>>, <<"â«", <<"â»">>>>, <<"â¬", <<"â¼">>>>,
   <<"â­", <<"â½">>>>, <<"â®", <<"â¾">>>>, <<"â¯", <<"â¿">>>>, <<"â", <<"â">>>>,
   <<"â¶", <<"â">>>>, <<"â·", <<"â">>>>, <<"â¸", <<"â">>>>, <<"â¹", <<"â">>>>,
   <<"âº", <<"â">>>>, <<"â»", <<"â">>>>, <<"â¼", <<"â">>>>, <<"â½", <<"â">>>>,
   <<"â¾", <<"â">>>>, <<"â¿", <<"â">>>>, <<"â", <<"â">>>>, <<"â", <<"â">>>>,
   <<"â", <<"â">>>>, <<"â", <<"â">>>>, <<"â", <<"â">>>>, <<"â", <<"â">>>>,
   <<"â", <<"â ">>>>, <<"â", <<"â¡">>>>, <<"â", <<"â¢">>>>, <<"â", <<"â£">>>>,
   <<"â", <<"â¤">>>>, <<"â", <<"â¥">>>>, <<"â", <<"â¦">>>>, <<"â", <<"â§">>>>,
   <<"â", <<"â¨">>>>, <<"â", <<"â©">>>>, <<"â°", <<"â°°">>>>, <<"â°", <<"â°±">>>>,
   <<"â°", <<"â°²">>>>, <<"â°", <<"â°³">>>>, <<"â°", <<"â°´">>>>, <<"â°", <<"â°µ">>>>,
   <<"â°", <<"â°¶">>>>, <<"â°", <<"â°·">>>>, <<"â°", <<"â°¸">>>>, <<"â°", <<"â°¹">>>>,
   <<"â°", <<"â°º">>>>, <<"â°", <<"â°»">>>>, <<"â°", <<"â°¼">>>>, <<"â°", <<"â°½">>>>,
   <<"â°", <<"â°¾">>>>, <<"â°", <<"â°¿">>>>, <<"â°", <<"â±">>>>, <<"â°", <<"â±">>>>,
   <<"â°", <<"â±">>>>, <<"â°", <<"â±">>>>, <<"â°", <<"â±">>>>, <<"â°", <<"â±">>>>,
   <<"â°", <<"â±">>>>, <<"â°", <<"â±">>>>, <<"â°", <<"â±">>>>, <<"â°", <<"â±">>>>,
   <<"â°", <<"â±">>>>, <<"â°", <<"â±">>>>, <<"â°", <<"â±">>>>, <<"â°", <<"â±">>>>,
   <<"â°", <<"â±">>>>, <<"â°", <<"â±">>>>, <<"â° ", <<"â±">>>>, <<"â°¡", <<"â±">>>>,
   <<"â°¢", <<"â±">>>>, <<"â°£", <<"â±">>>>, <<"â°¤", <<"â±">>>>, <<"â°¥", <<"â±">>>>,
   <<"â°¦", <<"â±">>>>, <<"â°§", <<"â±">>>>, <<"â°¨", <<"â±">>>>, <<"â°©", <<"â±">>>>,
   <<"â°ª", <<"â±">>>>, <<"â°«", <<"â±">>>>, <<"â°¬", <<"â±">>>>, <<"â°­", <<"â±">>>>,
   <<"â°®", <<"â±">>>>, <<"â°¯", <<"â±">>>>, <<"â± ", <<"â±¡">>>>, <<"â±¢", <<"É«">>>>,
   <<"â±£", <<"áµ½">>>>, <<"â±¤", <<"É½">>>>, <<"â±§", <<"â±¨">>>>, <<"â±©", <<"â±ª">>>>,
   <<"â±«", <<"â±¬">>>>, <<"â±­", <<"É">>>>, <<"â±®", <<"É±">>>>, <<"â±¯", <<"É">>>>,
   <<"â±°", <<"É">>>>, <<"â±²", <<"â±³">>>>, <<"â±µ", <<"â±¶">>>>, <<"â±¾", <<"È¿">>>>,
   <<"â±¿", <<"É">>>>, <<"â²", <<"â²">>>>, <<"â²", <<"â²">>>>, <<"â²", <<"â²">>>>,
   <<"â²", <<"â²">>>>, <<"â²", <<"â²">>>>, <<"â²", <<"â²">>>>, <<"â²", <<"â²">>>>,
   <<"â²", <<"â²">>>>, <<"â²", <<"â²">>>>, <<"â²", <<"â²">>>>, <<"â²", <<"â²">>>>,
   <<"â²", <<"â²">>>>, <<"â²", <<"â²">>>>, <<"â²", <<"â²">>>>, <<"â²", <<"â²">>>>,
   <<"â²", <<"â²">>>>, <<"â² ", <<"â²¡">>>>, <<"â²¢", <<"â²£">>>>, <<"â²¤", <<"â²¥">>>>,
   <<"â²¦", <<"â²§">>>>, <<"â²¨", <<"â²©">>>>, <<"â²ª", <<"â²«">>>>, <<"â²¬", <<"â²­">>>>,
   <<"â²®", <<"â²¯">>>>, <<"â²°", <<"â²±">>>>, <<"â²²", <<"â²³">>>>, <<"â²´", <<"â²µ">>>>,
   <<"â²¶", <<"â²·">>>>, <<"â²¸", <<"â²¹">>>>, <<"â²º", <<"â²»">>>>, <<"â²¼", <<"â²½">>>>,
   <<"â²¾", <<"â²¿">>>>, <<"â³", <<"â³">>>>, <<"â³", <<"â³">>>>, <<"â³", <<"â³">>>>,
   <<"â³", <<"â³">>>>, <<"â³", <<"â³">>>>, <<"â³", <<"â³">>>>, <<"â³", <<"â³">>>>,
   <<"â³", <<"â³">>>>, <<"â³", <<"â³">>>>, <<"â³", <<"â³">>>>, <<"â³", <<"â³">>>>,
   <<"â³", <<"â³">>>>, <<"â³", <<"â³">>>>, <<"â³", <<"â³">>>>, <<"â³", <<"â³">>>>,
   <<"â³", <<"â³">>>>, <<"â³ ", <<"â³¡">>>>, <<"â³¢", <<"â³£">>>>, <<"â³«", <<"â³¬">>>>,
   <<"â³­", <<"â³®">>>>, <<"â³²", <<"â³³">>>>, <<"ê", <<"ê">>>>, <<"ê", <<"ê">>>>,
   <<"ê", <<"ê">>>>, <<"ê", <<"ê">>>>, <<"ê", <<"ê">>>>, <<"ê", <<"ê">>>>,
   <<"ê", <<"ê">>>>, <<"ê", <<"ê">>>>, <<"ê", <<"ê">>>>, <<"ê", <<"ê">>>>,
   <<"ê", <<"ê">>>>, <<"ê", <<"ê">>>>, <<"ê", <<"ê">>>>, <<"ê", <<"ê">>>>,
   <<"ê", <<"ê">>>>, <<"ê", <<"ê">>>>, <<"ê ", <<"ê¡">>>>, <<"ê¢", <<"ê£">>>>,
   <<"ê¤", <<"ê¥">>>>, <<"ê¦", <<"ê§">>>>, <<"ê¨", <<"ê©">>>>, <<"êª", <<"ê«">>>>,
   <<"ê¬", <<"ê­">>>>, <<"ê", <<"ê">>>>, <<"ê", <<"ê">>>>, <<"ê", <<"ê">>>>,
   <<"ê", <<"ê">>>>, <<"ê", <<"ê">>>>, <<"ê", <<"ê">>>>, <<"ê", <<"ê">>>>,
   <<"ê", <<"ê">>>>, <<"ê", <<"ê">>>>, <<"ê", <<"ê">>>>, <<"ê", <<"ê">>>>,
   <<"ê", <<"ê">>>>, <<"ê", <<"ê">>>>, <<"ê", <<"ê">>>>, <<"ê¢", <<"ê£">>>>,
   <<"ê¤", <<"ê¥">>>>, <<"ê¦", <<"ê§">>>>, <<"ê¨", <<"ê©">>>>, <<"êª", <<"ê«">>>>,
   <<"ê¬", <<"ê­">>>>, <<"ê®", <<"ê¯">>>>, <<"ê²", <<"ê³">>>>, <<"ê´", <<"êµ">>>>,
   <<"ê¶", <<"ê·">>>>, <<"ê¸", <<"ê¹">>>>, <<"êº", <<"ê»">>>>, <<"ê¼", <<"ê½">>>>,
   <<"ê¾", <<"ê¿">>>>, <<"ê", <<"ê">>>>, <<"ê", <<"ê">>>>, <<"ê", <<"ê">>>>,
   <<"ê", <<"ê">>>>, <<"ê", <<"ê">>>>, <<"ê", <<"ê">>>>, <<"ê", <<"ê">>>>,
   <<"ê", <<"ê">>>>, <<"ê", <<"ê">>>>, <<"ê", <<"ê">>>>, <<"ê", <<"ê">>>>,
   <<"ê", <<"ê">>>>, <<"ê", <<"ê">>>>, <<"ê", <<"ê">>>>, <<"ê", <<"ê">>>>,
   <<"ê", <<"ê">>>>, <<"ê ", <<"ê¡">>>>, <<"ê¢", <<"ê£">>>>, <<"ê¤", <<"ê¥">>>>,
   <<"ê¦", <<"ê§">>>>, <<"ê¨", <<"ê©">>>>, <<"êª", <<"ê«">>>>, <<"ê¬", <<"ê­">>>>,
   <<"ê®", <<"ê¯">>>>, <<"ê¹", <<"êº">>>>, <<"ê»", <<"ê¼">>>>, <<"ê½", <<"áµ¹">>>>,
   <<"ê¾", <<"ê¿">>>>, <<"ê", <<"ê">>>>, <<"ê", <<"ê">>>>, <<"ê", <<"ê">>>>,
   <<"ê", <<"ê">>>>, <<"ê", <<"ê">>>>, <<"ê", <<"É¥">>>>, <<"ê", <<"ê">>>>,
   <<"ê", <<"ê">>>>, <<"ê", <<"ê">>>>, <<"ê", <<"ê">>>>, <<"ê", <<"ê">>>>,
   <<"ê", <<"ê">>>>, <<"ê", <<"ê">>>>, <<"ê ", <<"ê¡">>>>, <<"ê¢", <<"ê£">>>>,
   <<"ê¤", <<"ê¥">>>>, <<"ê¦", <<"ê§">>>>, <<"ê¨", <<"ê©">>>>, <<"êª", <<"É¦">>>>,
   <<"ê«", <<"É">>>>, <<"ê¬", <<"É¡">>>>, <<"ê­", <<"É¬">>>>, <<"ê®", <<"Éª">>>>,
   <<"ê°", <<"Ê">>>>, <<"ê±", <<"Ê">>>>, <<"ê²", <<"Ê">>>>, <<"ê³", <<"ê­">>>>,
   <<"ê´", <<"êµ">>>>, <<"ê¶", <<"ê·">>>>, <<"ê¸", <<"ê¹">>>>, <<"êº", <<"ê»">>>>,
   <<"ê¼", <<"ê½">>>>, <<"ê¾", <<"ê¿">>>>, <<"ê", <<"ê">>>>, <<"ê", <<"ê">>>>,
   <<"ê", <<"ê">>>>, <<"ê", <<"Ê">>>>, <<"ê", <<"á¶">>>>, <<"ê", <<"ê">>>>,
   <<"ê", <<"ê">>>>, <<"ê", <<"ê">>>>, <<"ê", <<"ê">>>>, <<"ê", <<"ê">>>>,
   <<"êµ", <<"ê¶">>>>, <<"ï¼¡", <<"ï½">>>>, <<"ï¼¢", <<"ï½">>>>, <<"ï¼£", <<"ï½">>>>,
   <<"ï¼¤", <<"ï½">>>>, <<"ï¼¥", <<"ï½">>>>, <<"ï¼¦", <<"ï½">>>>, <<"ï¼§", <<"ï½">>>>,
   <<"ï¼¨", <<"ï½">>>>, <<"ï¼©", <<"ï½">>>>, <<"ï¼ª", <<"ï½">>>>, <<"ï¼«", <<"ï½">>>>,
   <<"ï¼¬", <<"ï½">>>>, <<"ï¼­", <<"ï½">>>>, <<"ï¼®", <<"ï½">>>>, <<"ï¼¯", <<"ï½">>>>,
   <<"ï¼°", <<"ï½">>>>, <<"ï¼±", <<"ï½">>>>, <<"ï¼²", <<"ï½">>>>, <<"ï¼³", <<"ï½">>>>,
   <<"ï¼´", <<"ï½">>>>, <<"ï¼µ", <<"ï½">>>>, <<"ï¼¶", <<"ï½">>>>, <<"ï¼·", <<"ï½">>>>,
   <<"ï¼¸", <<"ï½">>>>, <<"ï¼¹", <<"ï½">>>>, <<"ï¼º", <<"ï½">>>>, <<"ð", <<"ð¨">>>>,
   <<"ð", <<"ð©">>>>, <<"ð", <<"ðª">>>>, <<"ð", <<"ð«">>>>,
   <<"ð", <<"ð¬">>>>, <<"ð", <<"ð­">>>>, <<"ð", <<"ð®">>>>,
   <<"ð", <<"ð¯">>>>, <<"ð", <<"ð°">>>>, <<"ð", <<"ð±">>>>,
   <<"ð", <<"ð²">>>>, <<"ð", <<"ð³">>>>, <<"ð", <<"ð´">>>>,
   <<"ð", <<"ðµ">>>>, <<"ð", <<"ð¶">>>>, <<"ð", <<"ð·">>>>,
   <<"ð", <<"ð¸">>>>, <<"ð", <<"ð¹">>>>, <<"ð", <<"ðº">>>>,
   <<"ð", <<"ð»">>>>, <<"ð", <<"ð¼">>>>, <<"ð", <<"ð½">>>>,
   <<"ð", <<"ð¾">>>>, <<"ð", <<"ð¿">>>>, <<"ð", <<"ð">>>>,
   <<"ð", <<"ð">>>>, <<"ð", <<"ð">>>>, <<"ð", <<"ð">>>>,
   <<"ð", <<"ð">>>>, <<"ð", <<"ð">>>>, <<"ð", <<"ð">>>>,
   <<"ð", <<"ð">>>>, <<"ð ", <<"ð">>>>, <<"ð¡", <<"ð">>>>,
   <<"ð¢", <<"ð">>>>, <<"ð£", <<"ð">>>>, <<"ð¤", <<"ð">>>>,
   <<"ð¥", <<"ð">>>>, <<"ð¦", <<"ð">>>>, <<"ð§", <<"ð">>>>,
   <<"ð°", <<"ð">>>>, <<"ð±", <<"ð">>>>, <<"ð²", <<"ð">>>>,
   <<"ð³", <<"ð">>>>, <<"ð´", <<"ð">>>>, <<"ðµ", <<"ð">>>>,
   <<"ð¶", <<"ð">>>>, <<"ð·", <<"ð">>>>, <<"ð¸", <<"ð ">>>>,
   <<"ð¹", <<"ð¡">>>>, <<"ðº", <<"ð¢">>>>, <<"ð»", <<"ð£">>>>,
   <<"ð¼", <<"ð¤">>>>, <<"ð½", <<"ð¥">>>>, <<"ð¾", <<"ð¦">>>>,
   <<"ð¿", <<"ð§">>>>, <<"ð", <<"ð¨">>>>, <<"ð", <<"ð©">>>>,
   <<"ð", <<"ðª">>>>, <<"ð", <<"ð«">>>>, <<"ð", <<"ð¬">>>>,
   <<"ð", <<"ð­">>>>, <<"ð", <<"ð®">>>>, <<"ð", <<"ð¯">>>>,
   <<"ð", <<"ð°">>>>, <<"ð", <<"ð±">>>>, <<"ð", <<"ð²">>>>,
   <<"ð", <<"ð³">>>>, <<"ð", <<"ð´">>>>, <<"ð", <<"ðµ">>>>,
   <<"ð", <<"ð¶">>>>, <<"ð", <<"ð·">>>>, <<"ð", <<"ð¸">>>>,
   <<"ð", <<"ð¹">>>>, <<"ð", <<"ðº">>>>, <<"ð", <<"ð»">>>>,
   <<"ð°", <<"ð">>>>, <<"ð±", <<"ð">>>>, <<"ð²", <<"ð">>>>,
   <<"ð³", <<"ð">>>>, <<"ð´", <<"ð">>>>, <<"ðµ", <<"ð">>>>,
   <<"ð¶", <<"ð">>>>, <<"ð·", <<"ð">>>>, <<"ð¸", <<"ð">>>>,
   <<"ð¹", <<"ð ">>>>, <<"ðº", <<"ð¡">>>>, <<"ð¼", <<"ð£">>>>,
   <<"ð½", <<"ð¤">>>>, <<"ð¾", <<"ð¥">>>>, <<"ð¿", <<"ð¦">>>>,
   <<"ð", <<"ð§">>>>, <<"ð", <<"ð¨">>>>, <<"ð", <<"ð©">>>>,
   <<"ð", <<"ðª">>>>, <<"ð", <<"ð«">>>>, <<"ð", <<"ð¬">>>>,
   <<"ð", <<"ð­">>>>, <<"ð", <<"ð®">>>>, <<"ð", <<"ð¯">>>>,
   <<"ð", <<"ð°">>>>, <<"ð", <<"ð±">>>>, <<"ð", <<"ð³">>>>,
   <<"ð", <<"ð´">>>>, <<"ð", <<"ðµ">>>>, <<"ð", <<"ð¶">>>>,
   <<"ð", <<"ð·">>>>, <<"ð", <<"ð¸">>>>, <<"ð", <<"ð¹">>>>,
   <<"ð", <<"ð»">>>>, <<"ð", <<"ð¼">>>>, <<"ð²", <<"ð³">>>>,
   <<"ð²", <<"ð³">>>>, <<"ð²", <<"ð³">>>>, <<"ð²", <<"ð³">>>>,
   <<"ð²", <<"ð³">>>>, <<"ð²", <<"ð³">>>>, <<"ð²", <<"ð³">>>>,
   <<"ð²", <<"ð³">>>>, <<"ð²", <<"ð³">>>>, <<"ð²", <<"ð³">>>>,
   <<"ð²", <<"ð³">>>>, <<"ð²", <<"ð³">>>>, <<"ð²", <<"ð³">>>>,
   <<"ð²", <<"ð³">>>>, <<"ð²", <<"ð³">>>>, <<"ð²", <<"ð³">>>>,
   <<"ð²", <<"ð³">>>>, <<"ð²", <<"ð³">>>>, <<"ð²", <<"ð³">>>>,
   <<"ð²", <<"ð³">>>>, <<"ð²", <<"ð³">>>>, <<"ð²", <<"ð³">>>>,
   <<"ð²", <<"ð³">>>>, <<"ð²", <<"ð³">>>>, <<"ð²", <<"ð³">>>>,
   <<"ð²", <<"ð³">>>>, <<"ð²", <<"ð³">>>>, <<"ð²", <<"ð³">>>>,
   <<"ð²", <<"ð³">>>>, <<"ð²", <<"ð³">>>>, <<"ð²", <<"ð³">>>>,
   <<"ð²", <<"ð³">>>>, <<"ð² ", <<"ð³ ">>>>, <<"ð²¡", <<"ð³¡">>>>,
   <<"ð²¢", <<"ð³¢">>>>, <<"ð²£", <<"ð³£">>>>, <<"ð²¤", <<"ð³¤">>>>,
   <<"ð²¥", <<"ð³¥">>>>, <<"ð²¦", <<"ð³¦">>>>, <<"ð²§", <<"ð³§">>>>,
   <<"ð²¨", <<"ð³¨">>>>, <<"ð²©", <<"ð³©">>>>, <<"ð²ª", <<"ð³ª">>>>,
   <<"ð²«", <<"ð³«">>>>, <<"ð²¬", <<"ð³¬">>>>, <<"ð²­", <<"ð³­">>>>,
   <<"ð²®", <<"ð³®">>>>, <<"ð²¯", <<"ð³¯">>>>, <<"ð²°", <<"ð³°">>>>,
   <<"ð²±", <<"ð³±">>>>, <<"ð²²", <<"ð³²">>>>, <<"ð¢ ", <<"ð£">>>>,
   <<"ð¢¡", <<"ð£">>>>, <<"ð¢¢", <<"ð£">>>>, <<"ð¢£", <<"ð£">>>>,
   <<"ð¢¤", <<"ð£">>>>, <<"ð¢¥", <<"ð£">>>>, <<"ð¢¦", <<"ð£">>>>,
   <<"ð¢§", <<"ð£">>>>, <<"ð¢¨", <<"ð£">>>>, <<"ð¢©", <<"ð£">>>>,
   <<"ð¢ª", <<"ð£">>>>, <<"ð¢«", <<"ð£">>>>, <<"ð¢¬", <<"ð£">>>>,
   <<"ð¢­", <<"ð£">>>>, <<"ð¢®", <<"ð£">>>>, <<"ð¢¯", <<"ð£">>>>,
   <<"ð¢°", <<"ð£">>>>, <<"ð¢±", <<"ð£">>>>, <<"ð¢²", <<"ð£">>>>,
   <<"ð¢³", <<"ð£">>>>, <<"ð¢´", <<"ð£">>>>, <<"ð¢µ", <<"ð£">>>>,
   <<"ð¢¶", <<"ð£">>>>, <<"ð¢·", <<"ð£">>>>, <<"ð¢¸", <<"ð£">>>>,
   <<"ð¢¹", <<"ð£">>>>, <<"ð¢º", <<"ð£">>>>, <<"ð¢»", <<"ð£">>>>,
   <<"ð¢¼", <<"ð£">>>>, <<"ð¢½", <<"ð£">>>>, <<"ð¢¾", <<"ð£">>>>,
   <<"ð¢¿", <<"ð£">>>>, <<"ð¹", <<"ð¹ ">>>>, <<"ð¹", <<"ð¹¡">>>>,
   <<"ð¹", <<"ð¹¢">>>>, <<"ð¹", <<"ð¹£">>>>, <<"ð¹", <<"ð¹¤">>>>,
   <<"ð¹", <<"ð¹¥">>>>, <<"ð¹", <<"ð¹¦">>>>, <<"ð¹", <<"ð¹§">>>>,
   <<"ð¹", <<"ð¹¨">>>>, <<"ð¹", <<"ð¹©">>>>, <<"ð¹", <<"ð¹ª">>>>,
   <<"ð¹", <<"ð¹«">>>>, <<"ð¹", <<"ð¹¬">>>>, <<"ð¹", <<"ð¹­">>>>,
   <<"ð¹", <<"ð¹®">>>>, <<"ð¹", <<"ð¹¯">>>>, <<"ð¹", <<"ð¹°">>>>,
   <<"ð¹", <<"ð¹±">>>>, <<"ð¹", <<"ð¹²">>>>, <<"ð¹", <<"ð¹³">>>>,
   <<"ð¹", <<"ð¹´">>>>, <<"ð¹", <<"ð¹µ">>>>, <<"ð¹", <<"ð¹¶">>>>,
   <<"ð¹", <<"ð¹·">>>>, <<"ð¹", <<"ð¹¸">>>>, <<"ð¹", <<"ð¹¹">>>>,
   <<"ð¹", <<"ð¹º">>>>, <<"ð¹", <<"ð¹»">>>>, <<"ð¹", <<"ð¹¼">>>>,
   <<"ð¹", <<"ð¹½">>>>, <<"ð¹", <<"ð¹¾">>>>, <<"ð¹", <<"ð¹¿">>>>,
   <<"ð¤", <<"ð¤¢">>>>, <<"ð¤", <<"ð¤£">>>>, <<"ð¤", <<"ð¤¤">>>>,
   <<"ð¤", <<"ð¤¥">>>>, <<"ð¤", <<"ð¤¦">>>>, <<"ð¤", <<"ð¤§">>>>,
   <<"ð¤", <<"ð¤¨">>>>, <<"ð¤", <<"ð¤©">>>>, <<"ð¤", <<"ð¤ª">>>>,
   <<"ð¤", <<"ð¤«">>>>, <<"ð¤", <<"ð¤¬">>>>, <<"ð¤", <<"ð¤­">>>>,
   <<"ð¤", <<"ð¤®">>>>, <<"ð¤", <<"ð¤¯">>>>, <<"ð¤", <<"ð¤°">>>>,
   <<"ð¤", <<"ð¤±">>>>, <<"ð¤", <<"ð¤²">>>>, <<"ð¤", <<"ð¤³">>>>,
   <<"ð¤", <<"ð¤´">>>>, <<"ð¤", <<"ð¤µ">>>>, <<"ð¤", <<"ð¤¶">>>>,
   <<"ð¤", <<"ð¤·">>>>, <<"ð¤", <<"ð¤¸">>>>, <<"ð¤", <<"ð¤¹">>>>,
   <<"ð¤", <<"ð¤º">>>>, <<"ð¤", <<"ð¤»">>>>, <<"ð¤", <<"ð¤¼">>>>,
   <<"ð¤", <<"ð¤½">>>>, <<"ð¤", <<"ð¤¾">>>>, <<"ð¤", <<"ð¤¿">>>>,
   <<"ð¤", <<"ð¥">>>>, <<"ð¤", <<"ð¥">>>>, <<"ð¤ ", <<"ð¥">>>>,
   <<"ð¤¡", <<"ð¥">>>>
  }

\* The upper-case mapping of the characters outside ASCII that have one
ToUpperFull ==
  {
   <<"Âµ", <<"Î">>>>, <<"Ã", <<"S", "S">>>>, <<"Ã ", <<"Ã">>>>, <<"Ã¡", <<"Ã">>>>,
   <<"Ã¢", <<"Ã">>>>, <<"Ã£", <<"Ã">>>>, <<"Ã¤", <<"Ã">>>>, <<"Ã¥", <<"Ã">>>>,
   <<"Ã¦", <<"Ã">>>>, <<"Ã§", <<"Ã">>>>, <<"Ã¨", <<"Ã">>>>, <<"Ã©", <<"Ã">>>>,
   <<"Ãª", <<"Ã">>>>, <<"Ã«", <<"Ã">>>>, <<"Ã¬", <<"Ã">>>>, <<"Ã­", <<"Ã">>>>,
   <<"Ã®", <<"Ã">>>>, <<"Ã¯", <<"Ã">>>>, <<"Ã°", <<"Ã">>>>, <<"Ã±", <<"Ã">>>>,
   <<"Ã²", <<"Ã">>>>, <<"Ã³", <<"Ã">>>>, <<"Ã´", <<"Ã">>>>, <<"Ãµ", <<"Ã">>>>,
   <<"Ã¶", <<"Ã">>>>, <<"Ã¸", <<"Ã">>>>, <<"Ã¹", <<"Ã">>>>, <<"Ãº", <<"Ã">>>>,
   <<"Ã»", <<"Ã">>>>, <<"Ã¼", <<"Ã">>>>, <<"Ã½", <<"Ã">>>>, <<"Ã¾", <<"Ã">>>>,
   <<"Ã¿", <<"Å¸">>>>, <<"Ä", <<"Ä">>>>, <<"Ä", <<"Ä">>>>, <<"Ä", <<"Ä">>>>,
   <<"Ä", <<"Ä">>>>, <<"Ä", <<"Ä">>>>, <<"Ä", <<"Ä">>>>, <<"Ä", <<"Ä">>>>,
   <<"Ä", <<"Ä">>>>, <<"Ä", <<"Ä">>>>, <<"Ä", <<"Ä">>>>, <<"Ä", <<"Ä">>>>,
   <<"Ä", <<"Ä">>>>, <<"Ä", <<"Ä">>>>, <<"Ä", <<"Ä">>>>, <<"Ä", <<"Ä">>>>,
   <<"Ä", <<"Ä">>>>, <<"Ä¡", <<"Ä ">>>>, <<"Ä£", <<"Ä¢">>>>, <<"Ä¥", <<"Ä¤">>>>,
   <<"Ä§", <<"Ä¦">>>>, <<"Ä©", <<"Ä¨">>>>, <<"Ä«", <<"Äª">>>>, <<"Ä­", <<"Ä¬">>>>,
   <<"Ä¯", <<"Ä®">>>>, <<"Ä±", <<"I">>>>, <<"Ä³", <<"Ä²">>>>, <<"Äµ", <<"Ä´">>>>,
   <<"Ä·", <<"Ä¶">>>>, <<"Äº", <<"Ä¹">>>>, <<"Ä¼", <<"Ä»">>>>, <<"Ä¾", <<"Ä½">>>>,
   <<"Å", <<"Ä¿">>>>, <<"Å", <<"Å">>>>, <<"Å", <<"Å">>>>, <<"Å", <<"Å">>>>,
   <<"Å", <<"Å">>>>, <<"Å", <<"Ê¼", "N">>>>, <<"Å", <<"Å">>>>, <<"Å", <<"Å">>>>,
   <<"Å", <<"Å">>>>, <<"Å", <<"Å">>>>, <<"Å", <<"Å">>>>, <<"Å", <<"Å">>>>,
   <<"Å", <<"Å">>>>, <<"Å", <<"Å">>>>, <<"Å", <<"Å">>>>, <<"Å", <<"Å">>>>,
   <<"Å", <<"Å">>>>, <<"Å¡", <<"Å ">>>>, <<"Å£", <<"Å¢">>>>, <<"Å¥", <<"Å¤">>>>,
   <<"Å§", <<"Å¦">>>>, <<"Å©", <<"Å¨">>>>, <<"Å«", <<"Åª">>>>, <<"Å­", <<"Å¬">>>>,
   <<"Å¯", <<"Å®">>>>, <<"Å±", <<"Å°">>>>, <<"Å³", <<"Å²">>>>, <<"Åµ", <<"Å´">>>>,
   <<"Å·", <<"Å¶">>>>, <<"Åº", <<"Å¹">>>>, <<"Å¼", <<"Å»">>>>, <<"Å¾", <<"Å½">>>>,
   <<"Å¿", <<"S">>>>, <<"Æ", <<"É">>>>, <<"Æ", <<"Æ">>>>, <<"Æ", <<"Æ">>>>,
   <<"Æ", <<"Æ">>>>, <<"Æ", <<"Æ">>>>, <<"Æ", <<"Æ">>>>, <<"Æ", <<"Ç¶">>>>,
   <<"Æ", <<"Æ">>>>, <<"Æ", <<"È½">>>>, <<"Æ", <<"È ">>>>, <<"Æ¡", <<"Æ ">>>>,
   <<"Æ£", <<"Æ¢">>>>, <<"Æ¥", <<"Æ¤">>>>, <<"Æ¨", <<"Æ§">>>>, <<"Æ­", <<"Æ¬">>>>,
   <<"Æ°", <<"Æ¯">>>>, <<"Æ´", <<"Æ³">>>>, <<"Æ¶", <<"Æµ">>>>, <<"Æ¹", <<"Æ¸">>>>,
   <<"Æ½", <<"Æ¼">>>>, <<"Æ¿", <<"Ç·">>>>, <<"Ç", <<"Ç">>>>, <<"Ç", <<"Ç">>>>,
   <<"Ç", <<"Ç">>>>, <<"Ç", <<"Ç">>>>, <<"Ç", <<"Ç">>>>, <<"Ç", <<"Ç">>>>,
   <<"Ç", <<"Ç">>>>, <<"Ç", <<"Ç">>>>, <<"Ç", <<"Ç">>>>, <<"Ç", <<"Ç">>>>,
   <<"Ç", <<"Ç">>>>, <<"Ç", <<"Ç">>>>, <<"Ç", <<"Ç">>>>, <<"Ç", <<"Ç">>>>,
   <<"Ç", <<"Æ">>>>, <<"Ç", <<"Ç">>>>, <<"Ç¡", <<"Ç ">>>>, <<"Ç£", <<"Ç¢">>>>,
   <<"Ç¥", <<"Ç¤">>>>, <<"Ç§", <<"Ç¦">>>>, <<"Ç©", <<"Ç¨">>>>, <<"Ç«", <<"Çª">>>>,
   <<"Ç­", <<"Ç¬">>>>, <<"Ç¯", <<"Ç®">>>>, <<"Ç°", <<"J", "Ì">>>>, <<"Ç²", <<"Ç±">>>>,
   <<"Ç³", <<"Ç±">>>>, <<"Çµ", <<"Ç´">>>>, <<"Ç¹", <<"Ç¸">>>>, <<"Ç»", <<"Çº">>>>,
   <<"Ç½", <<"Ç¼">>>>, <<"Ç¿", <<"Ç¾">>>>, <<"È", <<"È">>>>, <<"È", <<"È">>>>,
   <<"È", <<"È">>>>, <<"È", <<"È">>>>, <<"È", <<"È">>>>, <<"È", <<"È">>>>,
   <<"È", <<"È">>>>, <<"È", <<"È">>>>, <<"È", <<"È">>>>, <<"È", <<"È">>>>,
   <<"È", <<"È">>>>, <<"È", <<"È">>>>, <<"È", <<"È">>>>, <<"È", <<"È">>>>,
   <<"È", <<"È">>>>, <<"È", <<"È">>>>, <<"È£", <<"È¢">>>>, <<"È¥", <<"È¤">>>>,
   <<"È§", <<"È¦">>>>, <<"È©", <<"È¨">>>>, <<"È«", <<"Èª">>>>, <<"È­", <<"È¬">>>>,
   <<"È¯", <<"È®">>>>, <<"È±", <<"È°">>>>, <<"È³", <<"È²">>>>, <<"È¼", <<"È»">>>>,
   <<"È¿", <<"â±¾">>>>, <<"É", <<"â±¿">>>>, <<"É", <<"É">>>>, <<"É", <<"É">>>>,
   <<"É", <<"É">>>>, <<"É", <<"É">>>>, <<"É", <<"É">>>>, <<"É", <<"É">>>>,
   <<"É", <<"â±¯">>>>, <<"É", <<"â±­">>>>, <<"É", <<"â±°">>>>, <<"É", <<"Æ">>>>,
   <<"É", <<"Æ">>>>, <<"É", <<"Æ">>>>, <<"É", <<"Æ">>>>, <<"É", <<"Æ">>>>,
   <<"É", <<"Æ">>>>, <<"É", <<"ê«">>>>, <<"É ", <<"Æ">>>>, <<"É¡", <<"ê¬">>>>,
   <<"É£", <<"Æ">>>>, <<"É¥", <<"ê">>>>, <<"É¦", <<"êª">>>>, <<"É¨", <<"Æ">>>>,
   <<"É©", <<"Æ">>>>, <<"Éª", <<"ê®">>>>, <<"É«", <<"â±¢">>>>, <<"É¬", <<"ê­">>>>,
   <<"É¯", <<"Æ">>>>, <<"É±", <<"â±®">>>>, <<"É²", <<"Æ">>>>, <<"Éµ", <<"Æ">>>>,
   <<"É½", <<"â±¤">>>>, <<"Ê", <<"Æ¦">>>>, <<"Ê", <<"ê">>>>, <<"Ê", <<"Æ©">>>>,
   <<"Ê", <<"ê±">>>>, <<"Ê", <<"Æ®">>>>, <<"Ê", <<"É">>>>, <<"Ê", <<"Æ±">>>>,
   <<"Ê", <<"Æ²">>>>, <<"Ê", <<"É">>>>, <<"Ê", <<"Æ·">>>>, <<"Ê", <<"ê²">>>>,
   <<"Ê", <<"ê°">>>>, <<"Í", <<"Î">>>>, <<"Í±", <<"Í°">>>>, <<"Í³", <<"Í²">>>>,
   <<"Í·", <<"Í¶">>>>, <<"Í»", <<"Ï½">>>>, <<"Í¼", <<"Ï¾">>>>, <<"Í½", <<"Ï¿">>>>,
   <<"Î", <<"Î", "Ì", "Ì">>>>, <<"Î¬", <<"Î">>>>, <<"Î­", <<"Î">>>>, <<"Î®", <<"Î">>>>,
   <<"Î¯", <<"Î">>>>, <<"Î°", <<"Î¥", "Ì", "Ì">>>>, <<"Î±", <<"Î">>>>, <<"Î²", <<"Î">>>>,
   <<"Î³", <<"Î">>>>, <<"Î´", <<"Î">>>>, <<"Îµ", <<"Î">>>>, <<"Î¶", <<"Î">>>>,
   <<"Î·", <<"Î">>>>, <<"Î¸", <<"Î">>>>, <<"Î¹", <<"Î">>>>, <<"Îº", <<"Î">>>>,
   <<"Î»", <<"Î">>>>, <<"Î¼", <<"Î">>>>, <<"Î½", <<"Î">>>>, <<"Î¾", <<"Î">>>>,
   <<"Î¿", <<"Î">>>>, <<"Ï", <<"Î ">>>>, <<"Ï", <<"Î¡">>>>, <<"Ï", <<"Î£">>>>,
   <<"Ï", <<"Î£">>>>, <<"Ï", <<"Î¤">>>>, <<"Ï", <<"Î¥">>>>, <<"Ï", <<"Î¦">>>>,
   <<"Ï", <<"Î§">>>>, <<"Ï", <<"Î¨">>>>, <<"Ï", <<"Î©">>>>, <<"Ï", <<"Îª">>>>,
   <<"Ï", <<"Î«">>>>, <<"Ï", <<"Î">>>>, <<"Ï", <<"Î">>>>, <<"Ï", <<"Î">>>>,
   <<"Ï", <<"Î">>>>, <<"Ï", <<"Î">>>>, <<"Ï", <<"Î¦">>>>, <<"Ï", <<"Î ">>>>,
   <<"Ï", <<"Ï">>>>, <<"Ï", <<"Ï">>>>, <<"Ï", <<"Ï">>>>, <<"Ï", <<"Ï">>>>,
   <<"Ï", <<"Ï">>>>, <<"Ï¡", <<"Ï ">>>>, <<"Ï£", <<"Ï¢">>>>, <<"Ï¥", <<"Ï¤">>>>,
   <<"Ï§", <<"Ï¦">>>>, <<"Ï©", <<"Ï¨">>>>, <<"Ï«", <<"Ïª">>>>, <<"Ï­", <<"Ï¬">>>>,
   <<"Ï¯", <<"Ï®">>>>, <<"Ï°", <<"Î">>>>, <<"Ï±", <<"Î¡">>>>, <<"Ï²", <<"Ï¹">>>>,
   <<"Ï³", <<"Í¿">>>>, <<"Ïµ", <<"Î">>>>, <<"Ï¸", <<"Ï·">>>>, <<"Ï»", <<"Ïº">>>>,
   <<"Ð°", <<"Ð">>>>, <<"Ð±", <<"Ð">>>>, <<"Ð²", <<"Ð">>>>, <<"Ð³", <<"Ð">>>>,
   <<"Ð´", <<"Ð">>>>, <<"Ðµ", <<"Ð">>>>, <<"Ð¶", <<"Ð">>>>, <<"Ð·", <<"Ð">>>>,
   <<"Ð¸", <<"Ð">>>>, <<"Ð¹", <<"Ð">>>>, <<"Ðº", <<"Ð">>>>, <<"Ð»", <<"Ð">>>>,
   <<"Ð¼", <<"Ð">>>>, <<"Ð½", <<"Ð">>>>, <<"Ð¾", <<"Ð">>>>, <<"Ð¿", <<"Ð">>>>,
   <<"Ñ", <<"Ð ">>>>, <<"Ñ", <<"Ð¡">>>>, <<"Ñ", <<"Ð¢">>>>, <<"Ñ", <<"Ð£">>>>,
   <<"Ñ", <<"Ð¤">>>>, <<"Ñ", <<"Ð¥">>>>, <<"Ñ", <<"Ð¦">>>>, <<"Ñ", <<"Ð§">>>>,
   <<"Ñ", <<"Ð¨">>>>, <<"Ñ", <<"Ð©">>>>, <<"Ñ", <<"Ðª">>>>, <<"Ñ", <<"Ð«">>>>,
   <<"Ñ", <<"Ð¬">>>>, <<"Ñ", <<"Ð­">>>>, <<"Ñ", <<"Ð®">>>>, <<"Ñ", <<"Ð¯">>>>,
   <<"Ñ", <<"Ð">>>>, <<"Ñ", <<"Ð">>>>, <<"Ñ", <<"Ð">>>>, <<"Ñ", <<"Ð">>>>,
   <<"Ñ", <<"Ð">>>>, <<"Ñ", <<"Ð">>>>, <<"Ñ", <<"Ð">>>>, <<"Ñ", <<"Ð">>>>,
   <<"Ñ", <<"Ð">>>>, <<"Ñ", <<"Ð">>>>, <<"Ñ", <<"Ð">>>>, <<"Ñ", <<"Ð">>>>,
   <<"Ñ", <<"Ð">>>>, <<"Ñ", <<"Ð">>>>, <<"Ñ", <<"Ð">>>>, <<"Ñ", <<"Ð">>>>,
   <<"Ñ¡", <<"Ñ ">>>>, <<"Ñ£", <<"Ñ¢">>>>, <<"Ñ¥", <<"Ñ¤">>>>, <<"Ñ§", <<"Ñ¦">>>>,
   <<"Ñ©", <<"Ñ¨">>>>, <<"Ñ«", <<"Ñª">>>>, <<"Ñ­", <<"Ñ¬">>>>, <<"Ñ¯", <<"Ñ®">>>>,
   <<"Ñ±", <<"Ñ°">>>>, <<"Ñ³", <<"Ñ²">>>>, <<"Ñµ", <<"Ñ´">>>>, <<"Ñ·", <<"Ñ¶">>>>,
   <<"Ñ¹", <<"Ñ¸">>>>, <<"Ñ»", <<"Ñº">>>>, <<"Ñ½", <<"Ñ¼">>>>, <<"Ñ¿", <<"Ñ¾">>>>,
   <<"Ò", <<"Ò">>>>, <<"Ò", <<"Ò">>>>, <<"Ò", <<"Ò">>>>, <<"Ò", <<"Ò">>>>,
   <<"Ò", <<"Ò">>>>, <<"Ò", <<"Ò">>>>, <<"Ò", <<"Ò">>>>, <<"Ò", <<"Ò">>>>,
   <<"Ò", <<"Ò">>>>, <<"Ò", <<"Ò">>>>, <<"Ò", <<"Ò">>>>, <<"Ò", <<"Ò">>>>,
   <<"Ò¡", <<"Ò ">>>>, <<"Ò£", <<"Ò¢">>>>, <<"Ò¥", <<"Ò¤">>>>, <<"Ò§", <<"Ò¦">>>>,
   <<"Ò©", <<"Ò¨">>>>, <<"Ò«", <<"Òª">>>>, <<"Ò­", <<"Ò¬">>>>, <<"Ò¯", <<"Ò®">>>>,
   <<"Ò±", <<"Ò°">>>>, <<"Ò³", <<"Ò²">>>>, <<"Òµ", <<"Ò´">>>>, <<"Ò·", <<"Ò¶">>>>,
   <<"Ò¹", <<"Ò¸">>>>, <<"Ò»", <<"Òº">>>>, <<"Ò½", <<"Ò¼">>>>, <<"Ò¿", <<"Ò¾">>>>,
   <<"Ó", <<"Ó">>>>, <<"Ó", <<"Ó">>>>, <<"Ó", <<"Ó">>>>, <<"Ó", <<"Ó">>>>,
   <<"Ó", <<"Ó">>>>, <<"Ó", <<"Ó">>>>, <<"Ó", <<"Ó">>>>, <<"Ó", <<"Ó">>>>,
   <<"Ó", <<"Ó">>>>, <<"Ó", <<"Ó">>>>, <<"Ó", <<"Ó">>>>, <<"Ó", <<"Ó">>>>,
   <<"Ó", <<"Ó">>>>, <<"Ó", <<"Ó">>>>, <<"Ó", <<"Ó">>>>, <<"Ó", <<"Ó">>>>,
   <<"Ó¡", <<"Ó ">>>>, <<"Ó£", <<"Ó¢">>>>, <<"Ó¥", <<"Ó¤">>>>, <<"Ó§", <<"Ó¦">>>>,
   <<"Ó©", <<"Ó¨">>>>, <<"Ó«", <<"Óª">>>>, <<"Ó­", <<"Ó¬">>>>, <<"Ó¯", <<"Ó®">>>>,
   <<"Ó±", <<"Ó°">>>>, <<"Ó³", <<"Ó²">>>>, <<"Óµ", <<"Ó´">>>>, <<"Ó·", <<"Ó¶">>>>,
   <<"Ó¹", <<"Ó¸">>>>, <<"Ó»", <<"Óº">>>>, <<"Ó½", <<"Ó¼">>>>, <<"Ó¿", <<"Ó¾">>>>,
   <<"Ô", <<"Ô">>>>, <<"Ô", <<"Ô">>>>, <<"Ô", <<"Ô">>>>, <<"Ô", <<"Ô">>>>,
   <<"Ô", <<"Ô">>>>, <<"Ô", <<"Ô">>>>, <<"Ô", <<"Ô">>>>, <<"Ô", <<"Ô">>>>,
   <<"Ô", <<"Ô">>>>, <<"Ô", <<"Ô">>>>, <<"Ô", <<"Ô">>>>, <<"Ô", <<"Ô">>>>,
   <<"Ô", <<"Ô">>>>, <<"Ô", <<"Ô">>>>, <<"Ô", <<"Ô">>>>, <<"Ô", <<"Ô">>>>,
   <<"Ô¡", <<"Ô ">>>>, <<"Ô£", <<"Ô¢">>>>, <<"Ô¥", <<"Ô¤">>>>, <<"Ô§", <<"Ô¦">>>>,
   <<"Ô©", <<"Ô¨">>>>, <<"Ô«", <<"Ôª">>>>, <<"Ô­", <<"Ô¬">>>>, <<"Ô¯", <<"Ô®">>>>,
   <<"Õ¡", <<"Ô±">>>>, <<"Õ¢", <<"Ô²">>>>, <<"Õ£", <<"Ô³">>>>, <<"Õ¤", <<"Ô´">>>>,
   <<"Õ¥", <<"Ôµ">>>>, <<"Õ¦", <<"Ô¶">>>>, <<"Õ§", <<"Ô·">>>>, <<"Õ¨", <<"Ô¸">>>>,
   <<"Õ©", <<"Ô¹">>>>, <<"Õª", <<"Ôº">>>>, <<"Õ«", <<"Ô»">>>>, <<"Õ¬", <<"Ô¼">>>>,
   <<"Õ­", <<"Ô½">>>>, <<"Õ®", <<"Ô¾">>>>, <<"Õ¯", <<"Ô¿">>>>, <<"Õ°", <<"Õ">>>>,
   <<"Õ±", <<"Õ">>>>, <<"Õ²", <<"Õ">>>>, <<"Õ³", <<"Õ">>>>, <<"Õ´", <<"Õ">>>>,
   <<"Õµ", <<"Õ">>>>, <<"Õ¶", <<"Õ">>>>, <<"Õ·", <<"Õ">>>>, <<"Õ¸", <<"Õ">>>>,
   <<"Õ¹", <<"Õ">>>>, <<"Õº", <<"Õ">>>>, <<"Õ»", <<"Õ">>>>, <<"Õ¼", <<"Õ">>>>,
   <<"Õ½", <<"Õ">>>>, <<"Õ¾", <<"Õ">>>>, <<"Õ¿", <<"Õ">>>>, <<"Ö", <<"Õ">>>>,
   <<"Ö", <<"Õ">>>>, <<"Ö", <<"Õ">>>>, <<"Ö", <<"Õ">>>>, <<"Ö", <<"Õ">>>>,
   <<"Ö", <<"Õ">>>>, <<"Ö", <<"Õ">>>>, <<"Ö", <<"Ôµ", "Õ">>>>, <<"á", <<"á²">>>>,
   <<"á", <<"á²">>>>, <<"á", <<"á²">>>>, <<"á", <<"á²">>>>, <<"á", <<"á²">>>>,
   <<"á", <<"á²">>>>, <<"á", <<"á²">>>>, <<"á", <<"á²">>>>, <<"á", <<"á²">>>>,
   <<"á", <<"á²">>>>, <<"á", <<"á²">>>>, <<"á", <<"á²">>>>, <<"á", <<"á²">>>>,
   <<"á", <<"á²">>>>, <<"á", <<"á²">>>>, <<"á", <<"á²">>>>, <<"á ", <<"á² ">>>>,
   <<"á¡", <<"á²¡">>>>, <<"á¢", <<"á²¢">>>>, <<"á£", <<"á²£">>>>, <<"á¤", <<"á²¤">>>>,
   <<"á¥", <<"á²¥">>>>, <<"á¦", <<"á²¦">>>>, <<"á§", <<"á²§">>>>, <<"á¨", <<"á²¨">>>>,
   <<"á©", <<"á²©">>>>, <<"áª", <<"á²ª">>>>, <<"á«", <<"á²«">>>>, <<"á¬", <<"á²¬">>>>,
   <<"á­", <<"á²­">>>>, <<"á®", <<"á²®">>>>, <<"á¯", <<"á²¯">>>>, <<"á°", <<"á²°">>>>,
   <<"á±", <<"á²±">>>>, <<"á²", <<"á²²">>>>, <<"á³", <<"á²³">>>>, <<"á´", <<"á²´">>>>,
   <<"áµ", <<"á²µ">>>>, <<"á¶", <<"á²¶">>>>, <<"á·", <<"á²·">>>>, <<"á¸", <<"á²¸">>>>,
   <<"á¹", <<"á²¹">>>>, <<"áº", <<"á²º">>>>, <<"á½", <<"á²½">>>>, <<"á¾", <<"á²¾">>>>,
   <<"á¿", <<"á²¿">>>>, <<"á¸", <<"á°">>>>, <<"á¹", <<"á±">>>>, <<"áº", <<"á²">>>>,
   <<"á»", <<"á³">>>>, <<"á¼", <<"á´">>>>, <<"á½", <<"áµ">>>>, <<"á²", <<"Ð">>>>,
   <<"á²", <<"Ð">>>>, <<"á²", <<"Ð">>>>, <<"á²", <<"Ð¡">>>>, <<"á²", <<"Ð¢">>>>,
   <<"á²", <<"Ð¢">>>>, <<"á²", <<"Ðª">>>>, <<"á²", <<"Ñ¢">>>>, <<"á²", <<"ê">>>>,
   <<"áµ¹", <<"ê½">>>>, <<"áµ½", <<"â±£">>>>, <<"á¶", <<"ê">>>>, <<"á¸", <<"á¸">>>>,
   <<"á¸", <<"á¸">>>>, <<"á¸", <<"á¸">>>>, <<"á¸", <<"á¸">>>>, <<"á¸", <<"á¸">>>>,
   <<"á¸", <<"á¸">>>>, <<"á¸", <<"á¸">>>>, <<"á¸", <<"á¸">>>>, <<"á¸", <<"á¸">>>>,
   <<"á¸", <<"á¸">>>>, <<"á¸", <<"á¸">>>>, <<"á¸", <<"á¸">>>>, <<"á¸", <<"á¸">>>>,
   <<"á¸", <<"á¸">>>>, <<"á¸", <<"á¸">>>>, <<"á¸", <<"á¸">>>>, <<"á¸¡", <<"á¸ ">>>>,
   <<"á¸£", <<"á¸¢">>>>, <<"á¸¥", <<"á¸¤">>>>, <<"á¸§", <<"á¸¦">>>>, <<"á¸©", <<"á¸¨">>>>,
   <<"á¸«", <<"á¸ª">>>>, <<"á¸­", <<"á¸¬">>>>, <<"á¸¯", <<"á¸®">>>>, <<"á¸±", <<"á¸°">>>>,
   <<"á¸³", <<"á¸²">>>>, <<"á¸µ", <<"á¸´">>>>, <<"á¸·", <<"á¸¶">>>>, <<"á¸¹", <<"á¸¸">>>>,
   <<"á¸»", <<"á¸º">>>>, <<"á¸½", <<"á¸¼">>>>, <<"á¸¿", <<"á¸¾">>>>, <<"á¹", <<"á¹">>>>,
   <<"á¹", <<"á¹">>>>, <<"á¹", <<"á¹">>>>, <<"á¹", <<"á¹">>>>, <<"á¹", <<"á¹">>>>,
   <<"á¹", <<"á¹">>>>, <<"á¹", <<"á¹">>>>, <<"á¹", <<"á¹">>>>, <<"á¹", <<"á¹">>>>,
   <<"á¹", <<"á¹">>>>, <<"á¹", <<"á¹">>>>, <<"á¹", <<"á¹">>>>, <<"á¹", <<"á¹">>>>,
   <<"á¹", <<"á¹">>>>, <<"á¹", <<"á¹">>>>, <<"á¹", <<"á¹">>>>, <<"á¹¡", <<"á¹ ">>>>,
   <<"á¹£", <<"á¹¢">>>>, <<"á¹¥", <<"á¹¤">>>>, <<"á¹§", <<"á¹¦">>>>, <<"á¹©", <<"á¹¨">>>>,
   <<"á¹«", <<"á¹ª">>>>, <<"á¹­", <<"á¹¬">>>>, <<"á¹¯", <<"á¹®">>>>, <<"á¹±", <<"á¹°">>>>,
   <<"á¹³", <<"á¹²">>>>, <<"á¹µ", <<"á¹´">>>>, <<"á¹·", <<"á¹¶">>>>, <<"á¹¹", <<"á¹¸">>>>,
   <<"á¹»", <<"á¹º">>>>, <<"á¹½", <<"á¹¼">>>>, <<"á¹¿", <<"á¹¾">>>>, <<"áº", <<"áº">>>>,
   <<"áº", <<"áº">>>>, <<"áº", <<"áº">>>>, <<"áº", <<"áº">>>>, <<"áº", <<"áº">>>>,
   <<"áº", <<"áº">>>>, <<"áº", <<"áº">>>>, <<"áº", <<"áº">>>>, <<"áº", <<"áº">>>>,
   <<"áº", <<"áº">>>>, <<"áº", <<"áº">>>>, <<"áº", <<"H", "Ì±">>>>,
   <<"áº", <<"T", "Ì">>>>, <<"áº", <<"W", "Ì">>>>, <<"áº", <<"Y", "Ì">>>>,
   <<"áº", <<"A", "Ê¾">>>>, <<"áº", <<"á¹ ">>>>, <<"áº¡", <<"áº ">>>>, <<"áº£", <<"áº¢">>>>,
   <<"áº¥", <<"áº¤">>>>, <<"áº§", <<"áº¦">>>>, <<"áº©", <<"áº¨">>>>, <<"áº«", <<"áºª">>>>,
   <<"áº­", <<"áº¬">>>>, <<"áº¯", <<"áº®">>>>, <<"áº±", <<"áº°">>>>, <<"áº³", <<"áº²">>>>,
   <<"áºµ", <<"áº´">>>>, <<"áº·", <<"áº¶">>>>, <<"áº¹", <<"áº¸">>>>, <<"áº»", <<"áºº">>>>,
   <<"áº½", <<"áº¼">>>>, <<"áº¿", <<"áº¾">>>>, <<"á»", <<"á»">>>>, <<"á»", <<"á»">>>>,
   <<"á»", <<"á»">>>>, <<"á»", <<"á»">>>>, <<"á»", <<"á»">>>>, <<"á»", <<"á»">>>>,
   <<"á»", <<"á»">>>>, <<"á»", <<"á»">>>>, <<"á»", <<"á»">>>>, <<"á»", <<"á»">>>>,
   <<"á»", <<"á»">>>>, <<"á»", <<"á»">>>>, <<"á»", <<"á»">>>>, <<"á»", <<"á»">>>>,
   <<"á»", <<"á»">>>>, <<"á»", <<"á»">>>>, <<"á»¡", <<"á» ">>>>, <<"á»£", <<"á»¢">>>>,
   <<"á»¥", <<"á»¤">>>>, <<"á»§", <<"á»¦">>>>, <<"á»©", <<"á»¨">>>>, <<"á»«", <<"á»ª">>>>,
   <<"á»­", <<"á»¬">>>>, <<"á»¯", <<"á»®">>>>, <<"á»±", <<"á»°">>>>, <<"á»³", <<"á»²">>>>,
   <<"á»µ", <<"á»´">>>>, <<"á»·", <<"á»¶">>>>, <<"á»¹", <<"á»¸">>>>, <<"á»»", <<"á»º">>>>,
   <<"á»½", <<"á»¼">>>>, <<"á»¿", <<"á»¾">>>>, <<"á¼", <<"á¼">>>>, <<"á¼", <<"á¼">>>>,
   <<"á¼", <<"á¼">>>>, <<"á¼", <<"á¼">>>>, <<"á¼", <<"á¼">>>>, <<"á¼", <<"á¼">>>>,
   <<"á¼", <<"á¼">>>>, <<"á¼", <<"á¼">>>>, <<"á¼", <<"á¼">>>>, <<"á¼", <<"á¼">>>>,
   <<"á¼", <<"á¼">>>>, <<"á¼", <<"á¼">>>>, <<"á¼", <<"á¼">>>>, <<"á¼", <<"á¼">>>>,
   <<"á¼ ", <<"á¼¨">>>>, <<"á¼¡", <<"á¼©">>>>, <<"á¼¢", <<"á¼ª">>>>, <<"á¼£", <<"á¼«">>>>,
   <<"á¼¤", <<"á¼¬">>>>, <<"á¼¥", <<"á¼­">>>>, <<"á¼¦", <<"á¼®">>>>, <<"á¼§", <<"á¼¯">>>>,
   <<"á¼°", <<"á¼¸">>>>, <<"á¼±", <<"á¼¹">>>>, <<"á¼²", <<"á¼º">>>>, <<"á¼³", <<"á¼»">>>>,
   <<"á¼´", <<"á¼¼">>>>, <<"á¼µ", <<"á¼½">>>>, <<"á¼¶", <<"á¼¾">>>>, <<"á¼·", <<"á¼¿">>>>,
   <<"á½", <<"á½">>>>, <<"á½", <<"á½">>>>, <<"á½", <<"á½">>>>, <<"á½", <<"á½">>>>,
   <<"á½", <<"á½">>>>, <<"á½", <<"á½">>>>, <<"á½", <<"Î¥", "Ì">>>>, <<"á½", <<"á½">>>>,
   <<"á½", <<"Î¥", "Ì", "Ì">>>>, <<"á½", <<"á½">>>>, <<"á½", <<"Î¥", "Ì", "Ì">>>>,
   <<"á½", <<"á½">>>>, <<"á½", <<"Î¥", "Ì", "Í">>>>, <<"á½", <<"á½">>>>,
   <<"á½ ", <<"á½¨">>>>, <<"á½¡", <<"á½©">>>>, <<"á½¢", <<"á½ª">>>>, <<"á½£", <<"á½«">>>>,
   <<"á½¤", <<"á½¬">>>>, <<"á½¥", <<"á½­">>>>, <<"á½¦", <<"á½®">>>>, <<"á½§", <<"á½¯">>>>,
   <<"á½°", <<"á¾º">>>>, <<"á½±", <<"á¾»">>>>, <<"á½²", <<"á¿">>>>, <<"á½³", <<"á¿">>>>,
   <<"á½´", <<"á¿">>>>, <<"á½µ", <<"á¿">>>>, <<"á½¶", <<"á¿">>>>, <<"á½·", <<"á¿">>>>,
   <<"á½¸", <<"á¿¸">>>>, <<"á½¹", <<"á¿¹">>>>, <<"á½º", <<"á¿ª">>>>, <<"á½»", <<"á¿«">>>>,
   <<"á½¼", <<"á¿º">>>>, <<"á½½", <<"á¿»">>>>, <<"á¾", <<"á¼", "Î">>>>,
   <<"á¾", <<"á¼", "Î">>>>, <<"á¾", <<"á¼", "Î">>>>, <<"á¾", <<"á¼", "Î">>>>,
   <<"á¾", <<"á¼", "Î">>>>, <<"á¾", <<"á¼", "Î">>>>, <<"á¾", <<"á¼", "Î">>>>,
   <<"á¾", <<"á¼", "Î">>>>, <<"á¾", <<"á¼", "Î">>>>, <<"á¾", <<"á¼", "Î">>>>,
   <<"á¾", <<"á¼", "Î">>>>, <<"á¾", <<"á¼", "Î">>>>, <<"á¾", <<"á¼", "Î">>>>,
   <<"á¾", <<"á¼", "Î">>>>, <<"á¾", <<"á¼", "Î">>>>, <<"á¾", <<"á¼", "Î">>>>,
   <<"á¾", <<"á¼¨", "Î">>>>, <<"á¾", <<"á¼©", "Î">>>>, <<"á¾", <<"á¼ª", "Î">>>>,
   <<"á¾", <<"á¼«", "Î">>>>, <<"á¾", <<"á¼¬", "Î">>>>, <<"á¾", <<"á¼­", "Î">>>>,
   <<"á¾", <<"á¼®", "Î">>>>, <<"á¾", <<"á¼¯", "Î">>>>, <<"á¾", <<"á¼¨", "Î">>>>,
   <<"á¾", <<"á¼©", "Î">>>>, <<"á¾", <<"á¼ª", "Î">>>>, <<"á¾", <<"á¼«", "Î">>>>,
   <<"á¾", <<"á¼¬", "Î">>>>, <<"á¾", <<"á¼­", "Î">>>>, <<"á¾", <<"á¼®", "Î">>>>,
   <<"á¾", <<"á¼¯", "Î">>>>, <<"á¾ ", <<"á½¨", "Î">>>>, <<"á¾¡", <<"á½©", "Î">>>>,
   <<"á¾¢", <<"á½ª", "Î">>>>, <<"á¾£", <<"á½«", "Î">>>>, <<"á¾¤", <<"á½¬", "Î">>>>,
   <<"á¾¥", <<"á½­", "Î">>>>, <<"á¾¦", <<"á½®", "Î">>>>, <<"á¾§", <<"á½¯", "Î">>>>,
   <<"á¾¨", <<"á½¨", "Î">>>>, <<"á¾©", <<"á½©", "Î">>>>, <<"á¾ª", <<"á½ª", "Î">>>>,
   <<"á¾«", <<"á½«", "Î">>>>, <<"á¾¬", <<"á½¬", "Î">>>>, <<"á¾­", <<"á½­", "Î">>>>,
   <<"á¾®", <<"á½®", "Î">>>>, <<"á¾¯", <<"á½¯", "Î">>>>, <<"á¾°", <<"á¾¸">>>>,
   <<"á¾±", <<"á¾¹">>>>, <<"á¾²", <<"á¾º", "Î">>>>, <<"á¾³", <<"Î", "Î">>>>,
   <<"á¾´", <<"Î", "Î">>>>, <<"á¾¶", <<"Î", "Í">>>>, <<"á¾·", <<"Î", "Í", "Î">>>>,
   <<"á¾¼", <<"Î", "Î">>>>, <<"á¾¾", <<"Î">>>>, <<"á¿", <<"á¿", "Î">>>>,
   <<"á¿", <<"Î", "Î">>>>, <<"á¿", <<"Î", "Î">>>>, <<"á¿", <<"Î", "Í">>>>,
   <<"á¿", <<"Î", "Í", "Î">>>>, <<"á¿", <<"Î", "Î">>>>, <<"á¿", <<"á¿">>>>,
   <<"á¿", <<"á¿">>>>, <<"á¿", <<"Î", "Ì", "Ì">>>>, <<"á¿", <<"Î", "Ì", "Ì">>>>,
   <<"á¿", <<"Î", "Í">>>>, <<"á¿", <<"Î", "Ì", "Í">>>>, <<"á¿ ", <<"á¿¨">>>>,
   <<"á¿¡", <<"á¿©">>>>, <<"á¿¢", <<"Î¥", "Ì", "Ì">>>>, <<"á¿£", <<"Î¥", "Ì", "Ì">>>>,
   <<"á¿¤", <<"Î¡", "Ì">>>>, <<"á¿¥", <<"á¿¬">>>>, <<"á¿¦", <<"Î¥", "Í">>>>,
   <<"á¿§", <<"Î¥", "Ì", "Í">>>>, <<"á¿²", <<"á¿º", "Î">>>>, <<"á¿³", <<"Î©", "Î">>>>,
   <<"á¿´", <<"Î", "Î">>>>, <<"á¿¶", <<"Î©", "Í">>>>, <<"á¿·", <<"Î©", "Í", "Î">>>>,
   <<"á¿¼", <<"Î©", "Î">>>>, <<"â", <<"â²">>>>, <<"â°", <<"â ">>>>, <<"â±", <<"â¡">>>>,
   <<"â²", <<"â¢">>>>, <<"â³", <<"â£">>>>, <<"â´", <<"â¤">>>>, <<"âµ", <<"â¥">>>>,
   <<"â¶", <<"â¦">>>>, <<"â·", <<"â§">>>>, <<"â¸", <<"â¨">>>>, <<"â¹", <<"â©">>>>,
   <<"âº", <<"âª">>>>, <<"â»", <<"â«">>>>, <<"â¼", <<"â¬">>>>, <<"â½", <<"â­">>>>,
   <<"â¾", <<"â®">>>>, <<"â¿", <<"â¯">>>>, <<"â", <<"â">>>>, <<"â", <<"â¶">>>>,
   <<"â", <<"â·">>>>, <<"â", <<"â¸">>>>, <<"â", <<"â¹">>>>, <<"â", <<"âº">>>>,
   <<"â", <<"â»">>>>, <<"â", <<"â¼">>>>, <<"â", <<"â½">>>>, <<"â", <<"â¾">>>>,
   <<"â", <<"â¿">>>>, <<"â", <<"â">>>>, <<"â", <<"â">>>>, <<"â", <<"â">>>>,
   <<"â", <<"â">>>>, <<"â", <<"â">>>>, <<"â", <<"â">>>>, <<"â ", <<"â">>>>,
   <<"â¡", <<"â">>>>, <<"â¢", <<"â">>>>, <<"â£", <<"â">>>>, <<"â¤", <<"â">>>>,
   <<"â¥", <<"â">>>>, <<"â¦", <<"â">>>>, <<"â§", <<"â">>>>, <<"â¨", <<"â">>>>,
   <<"â©", <<"â">>>>, <<"â°°", <<"â°">>>>, <<"â°±", <<"â°">>>>, <<"â°²", <<"â°">>>>,
   <<"â°³", <<"â°">>>>, <<"â°´", <<"â°">>>>, <<"â°µ", <<"â°">>>>, <<"â°¶", <<"â°">>>>,
   <<"â°·", <<"â°">>>>, <<"â°¸", <<"â°">>>>, <<"â°¹", <<"â°">>>>, <<"â°º", <<"â°">>>>,
   <<"â°»", <<"â°">>>>, <<"â°¼", <<"â°">>>>, <<"â°½", <<"â°">>>>, <<"â°¾", <<"â°">>>>,
   <<"â°¿", <<"â°">>>>, <<"â±", <<"â°">>>>, <<"â±", <<"â°">>>>, <<"â±", <<"â°">>>>,
   <<"â±", <<"â°">>>>, <<"â±", <<"â°">>>>, <<"â±", <<"â°">>>>, <<"â±", <<"â°">>>>,
   <<"â±", <<"â°">>>>, <<"â±", <<"â°">>>>, <<"â±", <<"â°">>>>, <<"â±", <<"â°">>>>,
   <<"â±", <<"â°">>>>, <<"â±", <<"â°">>>>, <<"â±", <<"â°">>>>, <<"â±", <<"â°">>>>,
   <<"â±", <<"â°">>>>, <<"â±", <<"â° ">>>>, <<"â±", <<"â°¡">>>>, <<"â±", <<"â°¢">>>>,
   <<"â±", <<"â°£">>>>, <<"â±", <<"â°¤">>>>, <<"â±", <<"â°¥">>>>, <<"â±", <<"â°¦">>>>,
   <<"â±", <<"â°§">>>>, <<"â±", <<"â°¨">>>>, <<"â±", <<"â°©">>>>, <<"â±", <<"â°ª">>>>,
   <<"â±", <<"â°«">>>>, <<"â±", <<"â°¬">>>>, <<"â±", <<"â°­">>>>, <<"â±", <<"â°®">>>>,
   <<"â±", <<"â°¯">>>>, <<"â±¡", <<"â± ">>>>, <<"â±¥", <<"Èº">>>>, <<"â±¦", <<"È¾">>>>,
   <<"â±¨", <<"â±§">>>>, <<"â±ª", <<"â±©">>>>, <<"â±¬", <<"â±«">>>>, <<"â±³", <<"â±²">>>>,
   <<"â±¶", <<"â±µ">>>>, <<"â²", <<"â²">>>>, <<"â²", <<"â²">>>>, <<"â²", <<"â²">>>>,
   <<"â²", <<"â²">>>>, <<"â²", <<"â²">>>>, <<"â²", <<"â²">>>>, <<"â²", <<"â²">>>>,
   <<"â²", <<"â²">>>>, <<"â²", <<"â²">>>>, <<"â²", <<"â²">>>>, <<"â²", <<"â²">>>>,
   <<"â²", <<"â²">>>>, <<"â²", <<"â²">>>>, <<"â²", <<"â²">>>>, <<"â²", <<"â²">>>>,
   <<"â²", <<"â²">>>>, <<"â²¡", <<"â² ">>>>, <<"â²£", <<"â²¢">>>>, <<"â²¥", <<"â²¤">>>>,
   <<"â²§", <<"â²¦">>>>, <<"â²©", <<"â²¨">>>>, <<"â²«", <<"â²ª">>>>, <<"â²­", <<"â²¬">>>>,
   <<"â²¯", <<"â²®">>>>, <<"â²±", <<"â²°">>>>, <<"â²³", <<"â²²">>>>, <<"â²µ", <<"â²´">>>>,
   <<"â²·", <<"â²¶">>>>, <<"â²¹", <<"â²¸">>>>, <<"â²»", <<"â²º">>>>, <<"â²½", <<"â²¼">>>>,
   <<"â²¿", <<"â²¾">>>>, <<"â³", <<"â³">>>>, <<"â³", <<"â³">>>>, <<"â³", <<"â³">>>>,
   <<"â³", <<"â³">>>>, <<"â³", <<"â³">>>>, <<"â³", <<"â³">>>>, <<"â³", <<"â³">>>>,
   <<"â³", <<"â³">>>>, <<"â³", <<"â³">>>>, <<"â³", <<"â³">>>>, <<"â³", <<"â³">>>>,
   <<"â³", <<"â³">>>>, <<"â³", <<"â³">>>>, <<"â³", <<"â³">>>>, <<"â³", <<"â³">>>>,
   <<"â³", <<"â³">>>>, <<"â³¡", <<"â³ ">>>>, <<"â³£", <<"â³¢">>>>, <<"â³¬", <<"â³«">>>>,
   <<"â³®", <<"â³­">>>>, <<"â³³", <<"â³²">>>>, <<"â´", <<"á ">>>>, <<"â´", <<"á¡">>>>,
   <<"â´", <<"á¢">>>>, <<"â´", <<"á£">>>>, <<"â´", <<"á¤">>>>, <<"â´", <<"á¥">>>>,
   <<"â´", <<"á¦">>>>, <<"â´", <<"á§">>>>, <<"â´", <<"á¨">>>>, <<"â´", <<"á©">>>>,
   <<"â´", <<"áª">>>>, <<"â´", <<"á«">>>>, <<"â´", <<"á¬">>>>, <<"â´", <<"á­">>>>,
   <<"â´", <<"á®">>>>, <<"â´", <<"á¯">>>>, <<"â´", <<"á°">>>>, <<"â´", <<"á±">>>>,
   <<"â´", <<"á²">>>>, <<"â´", <<"á³">>>>, <<"â´", <<"á´">>>>, <<"â´", <<"áµ">>>>,
   <<"â´", <<"á¶">>>>, <<"â´", <<"á·">>>>, <<"â´", <<"á¸">>>>, <<"â´", <<"á¹">>>>,
   <<"â´", <<"áº">>>>, <<"â´", <<"á»">>>>, <<"â´", <<"á¼">>>>, <<"â´", <<"á½">>>>,
   <<"â´", <<"á¾">>>>, <<"â´", <<"á¿">>>>, <<"â´ ", <<"á">>>>, <<"â´¡", <<"á">>>>,
   <<"â´¢", <<"á">>>>, <<"â´£", <<"á">>>>, <<"â´¤", <<"á">>>>, <<"â´¥", <<"á">>>>,
   <<"â´§", <<"á">>>>, <<"â´­", <<"á">>>>, <<"ê", <<"ê">>>>, <<"ê", <<"ê">>>>,
   <<"ê", <<"ê">>>>, <<"ê", <<"ê">>>>, <<"ê", <<"ê">>>>, <<"ê", <<"ê">>>>,
   <<"ê", <<"ê">>>>, <<"ê", <<"ê">>>>, <<"ê", <<"ê">>>>, <<"ê", <<"ê">>>>,
   <<"ê", <<"ê">>>>, <<"ê", <<"ê">>>>, <<"ê", <<"ê">>>>, <<"ê", <<"ê">>>>,
   <<"ê", <<"ê">>>>, <<"ê", <<"ê">>>>, <<"ê¡", <<"ê ">>>>, <<"ê£", <<"ê¢">>>>,
   <<"ê¥", <<"ê¤">>>>, <<"ê§", <<"ê¦">>>>, <<"ê©", <<"ê¨">>>>, <<"ê«", <<"êª">>>>,
   <<"ê­", <<"ê¬">>>>, <<"ê", <<"ê">>>>, <<"ê", <<"ê">>>>, <<"ê", <<"ê">>>>,
   <<"ê", <<"ê">>>>, <<"ê", <<"ê">>>>, <<"ê", <<"ê">>>>, <<"ê", <<"ê">>>>,
   <<"ê", <<"ê">>>>, <<"ê", <<"ê">>>>, <<"ê", <<"ê">>>>, <<"ê", <<"ê">>>>,
   <<"ê", <<"ê">>>>, <<"ê", <<"ê">>>>, <<"ê", <<"ê">>>>, <<"ê£", <<"ê¢">>>>,
   <<"ê¥", <<"ê¤">>>>, <<"ê§", <<"ê¦">>>>, <<"ê©", <<"ê¨">>>>, <<"ê«", <<"êª">>>>,
   <<"ê­", <<"ê¬">>>>, <<"ê¯", <<"ê®">>>>, <<"ê³", <<"ê²">>>>, <<"êµ", <<"ê´">>>>,
   <<"ê·", <<"ê¶">>>>, <<"ê¹", <<"ê¸">>>>, <<"ê»", <<"êº">>>>, <<"ê½", <<"ê¼">>>>,
   <<"ê¿", <<"ê¾">>>>, <<"ê", <<"ê">>>>, <<"ê", <<"ê">>>>, <<"ê", <<"ê">>>>,
   <<"ê", <<"ê">>>>, <<"ê", <<"ê">>>>, <<"ê", <<"ê">>>>, <<"ê", <<"ê">>>>,
   <<"ê", <<"ê">>>>, <<"ê", <<"ê">>>>, <<"ê", <<"ê">>>>, <<"ê", <<"ê">>>>,
   <<"ê", <<"ê">>>>, <<"ê", <<"ê">>>>, <<"ê", <<"ê">>>>, <<"ê", <<"ê">>>>,
   <<"ê", <<"ê">>>>, <<"ê¡", <<"ê ">>>>, <<"ê£", <<"ê¢">>>>, <<"ê¥", <<"ê¤">>>>,
   <<"ê§", <<"ê¦">>>>, <<"ê©", <<"ê¨">>>>, <<"ê«", <<"êª">>>>, <<"ê­", <<"ê¬">>>>,
   <<"ê¯", <<"ê®">>>>, <<"êº", <<"ê¹">>>>, <<"ê¼", <<"ê»">>>>, <<"ê¿", <<"ê¾">>>>,
   <<"ê", <<"ê">>>>, <<"ê", <<"ê">>>>, <<"ê", <<"ê">>>>, <<"ê", <<"ê">>>>,
   <<"ê", <<"ê">>>>, <<"ê", <<"ê">>>>, <<"ê", <<"ê">>>>, <<"ê", <<"ê">>>>,
   <<"ê", <<"ê">>>>, <<"ê", <<"ê">>>>, <<"ê", <<"ê">>>>, <<"ê", <<"ê">>>>,
   <<"ê", <<"ê">>>>, <<"ê¡", <<"ê ">>>>, <<"ê£", <<"ê¢">>>>, <<"ê¥", <<"ê¤">>>>,
   <<"ê§", <<"ê¦">>>>, <<"ê©", <<"ê¨">>>>, <<"êµ", <<"ê´">>>>, <<"ê·", <<"ê¶">>>>,
   <<"ê¹", <<"ê¸">>>>, <<"ê»", <<"êº">>>>, <<"ê½", <<"ê¼">>>>, <<"ê¿", <<"ê¾">>>>,
   <<"ê", <<"ê">>>>, <<"ê", <<"ê">>>>, <<"ê", <<"ê">>>>, <<"ê", <<"ê">>>>,
   <<"ê", <<"ê">>>>, <<"ê", <<"ê">>>>, <<"ê", <<"ê">>>>, <<"ê¶", <<"êµ">>>>,
   <<"ê­", <<"ê³">>>>, <<"ê­°", <<"á ">>>>, <<"ê­±", <<"á¡">>>>, <<"ê­²", <<"á¢">>>>,
   <<"ê­³", <<"á£">>>>, <<"ê­´", <<"á¤">>>>, <<"ê­µ", <<"á¥">>>>, <<"ê­¶", <<"á¦">>>>,
   <<"ê­·", <<"á§">>>>, <<"ê­¸", <<"á¨">>>>, <<"ê­¹", <<"á©">>>>, <<"ê­º", <<"áª">>>>,
   <<"ê­»", <<"á«">>>>, <<"ê­¼", <<"á¬">>>>, <<"ê­½", <<"á­">>>>, <<"ê­¾", <<"á®">>>>,
   <<"ê­¿", <<"á¯">>>>, <<"ê®", <<"á°">>>>, <<"ê®", <<"á±">>>>, <<"ê®", <<"á²">>>>,
   <<"ê®", <<"á³">>>>, <<"ê®", <<"á´">>>>, <<"ê®", <<"áµ">>>>, <<"ê®", <<"á¶">>>>,
   <<"ê®", <<"á·">>>>, <<"ê®", <<"á¸">>>>, <<"ê®", <<"á¹">>>>, <<"ê®", <<"áº">>>>,
   <<"ê®", <<"á»">>>>, <<"ê®", <<"á¼">>>>, <<"ê®", <<"á½">>>>, <<"ê®", <<"á¾">>>>,
   <<"ê®", <<"á¿">>>>, <<"ê®", <<"á">>>>, <<"ê®", <<"á">>>>, <<"ê®", <<"á">>>>,
   <<"ê®", <<"á">>>>, <<"ê®", <<"á">>>>, <<"ê®", <<"á">>>>, <<"ê®", <<"á">>>>,
   <<"ê®", <<"á">>>>, <<"ê®", <<"á">>>>, <<"ê®", <<"á">>>>, <<"ê®", <<"á">>>>,
   <<"ê®", <<"á">>>>, <<"ê®", <<"á">>>>, <<"ê®", <<"á">>>>, <<"ê®", <<"á">>>>,
   <<"ê®", <<"á">>>>, <<"ê® ", <<"á">>>>, <<"ê®¡", <<"á">>>>, <<"ê®¢", <<"á">>>>,
   <<"ê®£", <<"á">>>>, <<"ê®¤", <<"á">>>>, <<"ê®¥", <<"á">>>>, <<"ê®¦", <<"á">>>>,
   <<"ê®§", <<"á">>>>, <<"ê®¨", <<"á">>>>, <<"ê®©", <<"á">>>>, <<"ê®ª", <<"á">>>>,
   <<"ê®«", <<"á">>>>, <<"ê®¬", <<"á">>>>, <<"ê®­", <<"á">>>>, <<"ê®®", <<"á">>>>,
   <<"ê®¯", <<"á">>>>, <<"ê®°", <<"á ">>>>, <<"ê®±", <<"á¡">>>>, <<"ê®²", <<"á¢">>>>,
   <<"ê®³", <<"á£">>>>, <<"ê®´", <<"á¤">>>>, <<"ê®µ", <<"á¥">>>>, <<"ê®¶", <<"á¦">>>>,
   <<"ê®·", <<"á§">>>>, <<"ê®¸", <<"á¨">>>>, <<"ê®¹", <<"á©">>>>, <<"ê®º", <<"áª">>>>,
   <<"ê®»", <<"á«">>>>, <<"ê®¼", <<"á¬">>>>, <<"ê®½", <<"á­">>>>, <<"ê®¾", <<"á®">>>>,
   <<"ê®¿", <<"á¯">>>>, <<"ï¬", <<"F", "F">>>>, <<"ï¬", <<"F", "I">>>>,
   <<"ï¬", <<"F", "L">>>>, <<"ï¬", <<"F", "F", "I">>>>, <<"ï¬", <<"F", "F", "L">>>>,
   <<"ï¬", <<"S", "T">>>>, <<"ï¬", <<"S", "T">>>>, <<"ï¬", <<"Õ", "Õ">>>>,
   <<"ï¬", <<"Õ", "Ôµ">>>>, <<"ï¬", <<"Õ", "Ô»">>>>, <<"ï¬", <<"Õ", "Õ">>>>,
   <<"ï¬", <<"Õ", "Ô½">>>>, <<"ï½", <<"ï¼¡">>>>, <<"ï½", <<"ï¼¢">>>>, <<"ï½", <<"ï¼£">>>>,
   <<"ï½", <<"ï¼¤">>>>, <<"ï½", <<"ï¼¥">>>>, <<"ï½", <<"ï¼¦">>>>, <<"ï½", <<"ï¼§">>>>,
   <<"ï½", <<"ï¼¨">>>>, <<"ï½", <<"ï¼©">>>>, <<"ï½", <<"ï¼ª">>>>, <<"ï½", <<"ï¼«">>>>,
   <<"ï½", <<"ï¼¬">>>>, <<"ï½", <<"ï¼­">>>>, <<"ï½", <<"ï¼®">>>>, <<"ï½", <<"ï¼¯">>>>,
   <<"ï½", <<"ï¼°">>>>, <<"ï½", <<"ï¼±">>>>, <<"ï½", <<"ï¼²">>>>, <<"ï½", <<"ï¼³">>>>,
   <<"ï½", <<"ï¼´">>>>, <<"ï½", <<"ï¼µ">>>>, <<"ï½", <<"ï¼¶">>>>, <<"ï½", <<"ï¼·">>>>,
   <<"ï½", <<"ï¼¸">>>>, <<"ï½", <<"ï¼¹">>>>, <<"ï½", <<"ï¼º">>>>, <<"ð¨", <<"ð">>>>,
   <<"ð©", <<"ð">>>>, <<"ðª", <<"ð">>>>, <<"ð«", <<"ð">>>>,
   <<"ð¬", <<"ð">>>>, <<"ð­", <<"ð">>>>, <<"ð®", <<"ð">>>>,
   <<"ð¯", <<"ð">>>>, <<"ð°", <<"ð">>>>, <<"ð±", <<"ð">>>>,
   <<"ð²", <<"ð">>>>, <<"ð³", <<"ð">>>>, <<"ð´", <<"ð">>>>,
   <<"ðµ", <<"ð">>>>, <<"ð¶", <<"ð">>>>, <<"ð·", <<"ð">>>>,
   <<"ð¸", <<"ð">>>>, <<"ð¹", <<"ð">>>>, <<"ðº", <<"ð">>>>,
   <<"ð»", <<"ð">>>>, <<"ð¼", <<"ð">>>>, <<"ð½", <<"ð">>>>,
   <<"ð¾", <<"ð">>>>, <<"ð¿", <<"ð">>>>, <<"ð", <<"ð">>>>,
   <<"ð", <<"ð">>>>, <<"ð", <<"ð">>>>, <<"ð", <<"ð">>>>,
   <<"ð", <<"ð">>>>, <<"ð", <<"ð">>>>, <<"ð", <<"ð">>>>,
   <<"ð", <<"ð">>>>, <<"ð", <<"ð ">>>>, <<"ð", <<"ð¡">>>>,
   <<"ð", <<"ð¢">>>>, <<"ð", <<"ð£">>>>, <<"ð", <<"ð¤">>>>,
   <<"ð", <<"ð¥">>>>, <<"ð", <<"ð¦">>>>, <<"ð", <<"ð§">>>>,
   <<"ð", <<"ð°">>>>, <<"ð", <<"ð±">>>>, <<"ð", <<"ð²">>>>,
   <<"ð", <<"ð³">>>>, <<"ð", <<"ð´">>>>, <<"ð", <<"ðµ">>>>,
   <<"ð", <<"ð¶">>>>, <<"ð", <<"ð·">>>>, <<"ð ", <<"ð¸">>>>,
   <<"ð¡", <<"ð¹">>>>, <<"ð¢", <<"ðº">>>>, <<"ð£", <<"ð»">>>>,
   <<"ð¤", <<"ð¼">>>>, <<"ð¥", <<"ð½">>>>, <<"ð¦", <<"ð¾">>>>,
   <<"ð§", <<"ð¿">>>>, <<"ð¨", <<"ð">>>>, <<"ð©", <<"ð">>>>,
   <<"ðª", <<"ð">>>>, <<"ð«", <<"ð">>>>, <<"ð¬", <<"ð">>>>,
   <<"ð­", <<"ð">>>>, <<"ð®", <<"ð">>>>, <<"ð¯", <<"ð">>>>,
   <<"ð°", <<"ð">>>>, <<"ð±", <<"ð">>>>, <<"ð²", <<"ð">>>>,
   <<"ð³", <<"ð">>>>, <<"ð´", <<"ð">>>>, <<"ðµ", <<"ð">>>>,
   <<"ð¶", <<"ð">>>>, <<"ð·", <<"ð">>>>, <<"ð¸", <<"ð">>>>,
   <<"ð¹", <<"ð">>>>, <<"ðº", <<"ð">>>>, <<"ð»", <<"ð">>>>,
   <<"ð", <<"ð°">>>>, <<"ð", <<"ð±">>>>, <<"ð", <<"ð²">>>>,
   <<"ð", <<"ð³">>>>, <<"ð", <<"ð´">>>>, <<"ð", <<"ðµ">>>>,
   <<"ð", <<"ð¶">>>>, <<"ð", <<"ð·">>>>, <<"ð", <<"ð¸">>>>,
   <<"ð ", <<"ð¹">>>>, <<"ð¡", <<"ðº">>>>, <<"ð£", <<"ð¼">>>>,
   <<"ð¤", <<"ð½">>>>, <<"ð¥", <<"ð¾">>>>, <<"ð¦", <<"ð¿">>>>,
   <<"ð§", <<"ð">>>>, <<"ð¨", <<"ð">>>>, <<"ð©", <<"ð">>>>,
   <<"ðª", <<"ð">>>>, <<"ð«", <<"ð">>>>, <<"ð¬", <<"ð">>>>,
   <<"ð­", <<"ð">>>>, <<"ð®", <<"ð">>>>, <<"ð¯", <<"ð">>>>,
   <<"ð°", <<"ð">>>>, <<"ð±", <<"ð">>>>, <<"ð³", <<"ð">>>>,
   <<"ð´", <<"ð">>>>, <<"ðµ", <<"ð">>>>, <<"ð¶", <<"ð">>>>,
   <<"ð·", <<"ð">>>>, <<"ð¸", <<"ð">>>>, <<"ð¹", <<"ð">>>>,
   <<"ð»", <<"ð">>>>, <<"ð¼", <<"ð">>>>, <<"ð³", <<"ð²">>>>,
   <<"ð³", <<"ð²">>>>, <<"ð³", <<"ð²">>>>, <<"ð³", <<"ð²">>>>,
   <<"ð³", <<"ð²">>>>, <<"ð³", <<"ð²">>>>, <<"ð³", <<"ð²">>>>,
   <<"ð³", <<"ð²">>>>, <<"ð³", <<"ð²">>>>, <<"ð³", <<"ð²">>>>,
   <<"ð³", <<"ð²">>>>, <<"ð³", <<"ð²">>>>, <<"ð³", <<"ð²">>>>,
   <<"ð³", <<"ð²">>>>, <<"ð³", <<"ð²">>>>, <<"ð³", <<"ð²">>>>,
   <<"ð³", <<"ð²">>>>, <<"ð³", <<"ð²">>>>, <<"ð³", <<"ð²">>>>,
   <<"ð³", <<"ð²">>>>, <<"ð³", <<"ð²">>>>, <<"ð³", <<"ð²">>>>,
   <<"ð³", <<"ð²">>>>, <<"ð³", <<"ð²">>>>, <<"ð³", <<"ð²">>>>,
   <<"ð³", <<"ð²">>>>, <<"ð³", <<"ð²">>>>, <<"ð³", <<"ð²">>>>,
   <<"ð³", <<"ð²">>>>, <<"ð³", <<"ð²">>>>, <<"ð³", <<"ð²">>>>,
   <<"ð³", <<"ð²">>>>, <<"ð³ ", <<"ð² ">>>>, <<"ð³¡", <<"ð²¡">>>>,
   <<"ð³¢", <<"ð²¢">>>>, <<"ð³£", <<"ð²£">>>>, <<"ð³¤", <<"ð²¤">>>>,
   <<"ð³¥", <<"ð²¥">>>>, <<"ð³¦", <<"ð²¦">>>>, <<"ð³§", <<"ð²§">>>>,
   <<"ð³¨", <<"ð²¨">>>>, <<"ð³©", <<"ð²©">>>>, <<"ð³ª", <<"ð²ª">>>>,
   <<"ð³«", <<"ð²«">>>>, <<"ð³¬", <<"ð²¬">>>>, <<"ð³­", <<"ð²­">>>>,
   <<"ð³®", <<"ð²®">>>>, <<"ð³¯", <<"ð²¯">>>>, <<"ð³°", <<"ð²°">>>>,
   <<"ð³±", <<"ð²±">>>>, <<"ð³²", <<"ð²²">>>>, <<"ð£", <<"ð¢ ">>>>,
   <<"ð£", <<"ð¢¡">>>>, <<"ð£", <<"ð¢¢">>>>, <<"ð£", <<"ð¢£">>>>,
   <<"ð£", <<"ð¢¤">>>>, <<"ð£", <<"ð¢¥">>>>, <<"ð£", <<"ð¢¦">>>>,
   <<"ð£", <<"ð¢§">>>>, <<"ð£", <<"ð¢¨">>>>, <<"ð£", <<"ð¢©">>>>,
   <<"ð£", <<"ð¢ª">>>>, <<"ð£", <<"ð¢«">>>>, <<"ð£", <<"ð¢¬">>>>,
   <<"ð£", <<"ð¢­">>>>, <<"ð£", <<"ð¢®">>>>, <<"ð£", <<"ð¢¯">>>>,
   <<"ð£", <<"ð¢°">>>>, <<"ð£", <<"ð¢±">>>>, <<"ð£", <<"ð¢²">>>>,
   <<"ð£", <<"ð¢³">>>>, <<"ð£", <<"ð¢´">>>>, <<"ð£", <<"ð¢µ">>>>,
   <<"ð£", <<"ð¢¶">>>>, <<"ð£", <<"ð¢·">>>>, <<"ð£", <<"ð¢¸">>>>,
   <<"ð£", <<"ð¢¹">>>>, <<"ð£", <<"ð¢º">>>>, <<"ð£", <<"ð¢»">>>>,
   <<"ð£", <<"ð¢¼">>>>, <<"ð£", <<"ð¢½">>>>, <<"ð£", <<"ð¢¾">>>>,
   <<"ð£", <<"ð¢¿">>>>, <<"ð¹ ", <<"ð¹">>>>, <<"ð¹¡", <<"ð¹">>>>,
   <<"ð¹¢", <<"ð¹">>>>, <<"ð¹£", <<"ð¹">>>>, <<"ð¹¤", <<"ð¹">>>>,
   <<"ð¹¥", <<"ð¹">>>>, <<"ð¹¦", <<"ð¹">>>>, <<"ð¹§", <<"ð¹">>>>,
   <<"ð¹¨", <<"ð¹">>>>, <<"ð¹©", <<"ð¹">>>>, <<"ð¹ª", <<"ð¹">>>>,
   <<"ð¹«", <<"ð¹">>>>, <<"ð¹¬", <<"ð¹">>>>, <<"ð¹­", <<"ð¹">>>>,
   <<"ð¹®", <<"ð¹">>>>, <<"ð¹¯", <<"ð¹">>>>, <<"ð¹°", <<"ð¹">>>>,
   <<"ð¹±", <<"ð¹">>>>, <<"ð¹²", <<"ð¹">>>>, <<"ð¹³", <<"ð¹">>>>,
   <<"ð¹´", <<"ð¹">>>>, <<"ð¹µ", <<"ð¹">>>>, <<"ð¹¶", <<"ð¹">>>>,
   <<"ð¹·", <<"ð¹">>>>, <<"ð¹¸", <<"ð¹">>>>, <<"ð¹¹", <<"ð¹">>>>,
   <<"ð¹º", <<"ð¹">>>>, <<"ð¹»", <<"ð¹">>>>, <<"ð¹¼", <<"ð¹">>>>,
   <<"ð¹½", <<"ð¹">>>>, <<"ð¹¾", <<"ð¹">>>>, <<"ð¹¿", <<"ð¹">>>>,
   <<"ð¤¢", <<"ð¤">>>>, <<"ð¤£", <<"ð¤">>>>, <<"ð¤¤", <<"ð¤">>>>,
   <<"ð¤¥", <<"ð¤">>>>, <<"ð¤¦", <<"ð¤">>>>, <<"ð¤§", <<"ð¤">>>>,
   <<"ð¤¨", <<"ð¤">>>>, <<"ð¤©", <<"ð¤">>>>, <<"ð¤ª", <<"ð¤">>>>,
   <<"ð¤«", <<"ð¤">>>>, <<"ð¤¬", <<"ð¤">>>>, <<"ð¤­", <<"ð¤">>>>,
   <<"ð¤®", <<"ð¤">>>>, <<"ð¤¯", <<"ð¤">>>>, <<"ð¤°", <<"ð¤">>>>,
   <<"ð¤±", <<"ð¤">>>>, <<"ð¤²", <<"ð¤">>>>, <<"ð¤³", <<"ð¤">>>>,
   <<"ð¤´", <<"ð¤">>>>, <<"ð¤µ", <<"ð¤">>>>, <<"ð¤¶", <<"ð¤">>>>,
   <<"ð¤·", <<"ð¤">>>>, <<"ð¤¸", <<"ð¤">>>>, <<"ð¤¹", <<"ð¤">>>>,
   <<"ð¤º", <<"ð¤">>>>, <<"ð¤»", <<"ð¤">>>>, <<"ð¤¼", <<"ð¤">>>>,
   <<"ð¤½", <<"ð¤">>>>, <<"ð¤¾", <<"ð¤">>>>, <<"ð¤¿", <<"ð¤">>>>,
   <<"ð¥", <<"ð¤">>>>, <<"ð¥", <<"ð¤">>>>, <<"ð¥", <<"ð¤ ">>>>,
   <<"ð¥", <<"ð¤¡">>>>
  }

\* The title-case mapping of the characters outside ASCII that have one
ToTitleFull ==
  {
   <<"Âµ", <<"Î">>>>, <<"Ã", <<"S", "s">>>>, <<"Ã ", <<"Ã">>>>, <<"Ã¡", <<"Ã">>>>,
   <<"Ã¢", <<"Ã">>>>, <<"Ã£", <<"Ã">>>>, <<"Ã¤", <<"Ã">>>>, <<"Ã¥", <<"Ã">>>>,
   <<"Ã¦", <<"Ã">>>>, <<"Ã§", <<"Ã">>>>, <<"Ã¨", <<"Ã">>>>, <<"Ã©", <<"Ã">>>>,
   <<"Ãª", <<"Ã">>>>, <<"Ã«", <<"Ã">>>>, <<"Ã¬", <<"Ã">>>>, <<"Ã­", <<"Ã">>>>,
   <<"Ã®", <<"Ã">>>>, <<"Ã¯", <<"Ã">>>>, <<"Ã°", <<"Ã">>>>, <<"Ã±", <<"Ã">>>>,
   <<"Ã²", <<"Ã">>>>, <<"Ã³", <<"Ã">>>>, <<"Ã´", <<"Ã">>>>, <<"Ãµ", <<"Ã">>>>,
   <<"Ã¶", <<"Ã">>>>, <<"Ã¸", <<"Ã">>>>, <<"Ã¹", <<"Ã">>>>, <<"Ãº", <<"Ã">>>>,
   <<"Ã»", <<"Ã">>>>, <<"Ã¼", <<"Ã">>>>, <<"Ã½", <<"Ã">>>>, <<"Ã¾", <<"Ã">>>>,
   <<"Ã¿", <<"Å¸">>>>, <<"Ä", <<"Ä">>>>, <<"Ä", <<"Ä">>>>, <<"Ä", <<"Ä">>>>,
   <<"Ä", <<"Ä">>>>, <<"Ä", <<"Ä">>>>, <<"Ä", <<"Ä">>>>, <<"Ä", <<"Ä">>>>,
   <<"Ä", <<"Ä">>>>, <<"Ä", <<"Ä">>>>, <<"Ä", <<"Ä">>>>, <<"Ä", <<"Ä">>>>,
   <<"Ä", <<"Ä">>>>, <<"Ä", <<"Ä">>>>, <<"Ä", <<"Ä">>>>, <<"Ä", <<"Ä">>>>,
   <<"Ä", <<"Ä">>>>, <<"Ä¡", <<"Ä ">>>>, <<"Ä£", <<"Ä¢">>>>, <<"Ä¥", <<"Ä¤">>>>,
   <<"Ä§", <<"Ä¦">>>>, <<"Ä©", <<"Ä¨">>>>, <<"Ä«", <<"Äª">>>>, <<"Ä­", <<"Ä¬">>>>,
   <<"Ä¯", <<"Ä®">>>>, <<"Ä±", <<"I">>>>, <<"Ä³", <<"Ä²">>>>, <<"Äµ", <<"Ä´">>>>,
   <<"Ä·", <<"Ä¶">>>>, <<"Äº", <<"Ä¹">>>>, <<"Ä¼", <<"Ä»">>>>, <<"Ä¾", <<"Ä½">>>>,
   <<"Å", <<"Ä¿">>>>, <<"Å", <<"Å">>>>, <<"Å", <<"Å">>>>, <<"Å", <<"Å">>>>,
   <<"Å", <<"Å">>>>, <<"Å", <<"Ê¼", "N">>>>, <<"Å", <<"Å">>>>, <<"Å", <<"Å">>>>,
   <<"Å", <<"Å">>>>, <<"Å", <<"Å">>>>, <<"Å", <<"Å">>>>, <<"Å", <<"Å">>>>,
   <<"Å", <<"Å">>>>, <<"Å", <<"Å">>>>, <<"Å", <<"Å">>>>, <<"Å", <<"Å">>>>,
   <<"Å", <<"Å">>>>, <<"Å¡", <<"Å ">>>>, <<"Å£", <<"Å¢">>>>, <<"Å¥", <<"Å¤">>>>,
   <<"Å§", <<"Å¦">>>>, <<"Å©", <<"Å¨">>>>, <<"Å«", <<"Åª">>>>, <<"Å­", <<"Å¬">>>>,
   <<"Å¯", <<"Å®">>>>, <<"Å±", <<"Å°">>>>, <<"Å³", <<"Å²">>>>, <<"Åµ", <<"Å´">>>>,
   <<"Å·", <<"Å¶">>>>, <<"Åº", <<"Å¹">>>>, <<"Å¼", <<"Å»">>>>, <<"Å¾", <<"Å½">>>>,
   <<"Å¿", <<"S">>>>, <<"Æ", <<"É">>>>, <<"Æ", <<"Æ">>>>, <<"Æ", <<"Æ">>>>,
   <<"Æ", <<"Æ">>>>, <<"Æ", <<"Æ">>>>, <<"Æ", <<"Æ">>>>, <<"Æ", <<"Ç¶">>>>,
   <<"Æ", <<"Æ">>>>, <<"Æ", <<"È½">>>>, <<"Æ", <<"È ">>>>, <<"Æ¡", <<"Æ ">>>>,
   <<"Æ£", <<"Æ¢">>>>, <<"Æ¥", <<"Æ¤">>>>, <<"Æ¨", <<"Æ§">>>>, <<"Æ­", <<"Æ¬">>>>,
   <<"Æ°", <<"Æ¯">>>>, <<"Æ´", <<"Æ³">>>>, <<"Æ¶", <<"Æµ">>>>, <<"Æ¹", <<"Æ¸">>>>,
   <<"Æ½", <<"Æ¼">>>>, <<"Æ¿", <<"Ç·">>>>, <<"Ç", <<"Ç">>>>, <<"Ç", <<"Ç">>>>,
   <<"Ç", <<"Ç">>>>, <<"Ç", <<"Ç">>>>, <<"Ç", <<"Ç">>>>, <<"Ç", <<"Ç">>>>,
   <<"Ç", <<"Ç">>>>, <<"Ç", <<"Ç">>>>, <<"Ç", <<"Ç">>>>, <<"Ç", <<"Ç">>>>,
   <<"Ç", <<"Ç">>>>, <<"Ç", <<"Ç">>>>, <<"Ç", <<"Ç">>>>, <<"Ç", <<"Ç">>>>,
   <<"Ç", <<"Æ">>>>, <<"Ç", <<"Ç">>>>, <<"Ç¡", <<"Ç ">>>>, <<"Ç£", <<"Ç¢">>>>,
   <<"Ç¥", <<"Ç¤">>>>, <<"Ç§", <<"Ç¦">>>>, <<"Ç©", <<"Ç¨">>>>, <<"Ç«", <<"Çª">>>>,
   <<"Ç­", <<"Ç¬">>>>, <<"Ç¯", <<"Ç®">>>>, <<"Ç°", <<"J", "Ì">>>>, <<"Ç±", <<"Ç²">>>>,
   <<"Ç³", <<"Ç²">>>>, <<"Çµ", <<"Ç´">>>>, <<"Ç¹", <<"Ç¸">>>>, <<"Ç»", <<"Çº">>>>,
   <<"Ç½", <<"Ç¼">>>>, <<"Ç¿", <<"Ç¾">>>>, <<"È", <<"È">>>>, <<"È", <<"È">>>>,
   <<"È", <<"È">>>>, <<"È", <<"È">>>>, <<"È", <<"È">>>>, <<"È", <<"È">>>>,
   <<"È", <<"È">>>>, <<"È", <<"È">>>>, <<"È", <<"È">>>>, <<"È", <<"È">>>>,
   <<"È", <<"È">>>>, <<"È", <<"È">>>>, <<"È", <<"È">>>>, <<"È", <<"È">>>>,
   <<"È", <<"È">>>>, <<"È", <<"È">>>>, <<"È£", <<"È¢">>>>, <<"È¥", <<"È¤">>>>,
   <<"È§", <<"È¦">>>>, <<"È©", <<"È¨">>>>, <<"È«", <<"Èª">>>>, <<"È­", <<"È¬">>>>,
   <<"È¯", <<"È®">>>>, <<"È±", <<"È°">>>>, <<"È³", <<"È²">>>>, <<"È¼", <<"È»">>>>,
   <<"È¿", <<"â±¾">>>>, <<"É", <<"â±¿">>>>, <<"É", <<"É">>>>, <<"É", <<"É">>>>,
   <<"É", <<"É">>>>, <<"É", <<"É">>>>, <<"É", <<"É">>>>, <<"É", <<"É">>>>,
   <<"É", <<"â±¯">>>>, <<"É", <<"â±­">>>>, <<"É", <<"â±°">>>>, <<"É", <<"Æ">>>>,
   <<"É", <<"Æ">>>>, <<"É", <<"Æ">>>>, <<"É", <<"Æ">>>>, <<"É", <<"Æ">>>>,
   <<"É", <<"Æ">>>>, <<"É", <<"ê«">>>>, <<"É ", <<"Æ">>>>, <<"É¡", <<"ê¬">>>>,
   <<"É£", <<"Æ">>>>, <<"É¥", <<"ê">>>>, <<"É¦", <<"êª">>>>, <<"É¨", <<"Æ">>>>,
   <<"É©", <<"Æ">>>>, <<"Éª", <<"ê®">>>>, <<"É«", <<"â±¢">>>>, <<"É¬", <<"ê­">>>>,
   <<"É¯", <<"Æ">>>>, <<"É±", <<"â±®">>>>, <<"É²", <<"Æ">>>>, <<"Éµ", <<"Æ">>>>,
   <<"É½", <<"â±¤">>>>, <<"Ê", <<"Æ¦">>>>, <<"Ê", <<"ê">>>>, <<"Ê", <<"Æ©">>>>,
   <<"Ê", <<"ê±">>>>, <<"Ê", <<"Æ®">>>>, <<"Ê", <<"É">>>>, <<"Ê", <<"Æ±">>>>,
   <<"Ê", <<"Æ²">>>>, <<"Ê", <<"É">>>>, <<"Ê", <<"Æ·">>>>, <<"Ê", <<"ê²">>>>,
   <<"Ê", <<"ê°">>>>, <<"Í", <<"Î">>>>, <<"Í±", <<"Í°">>>>, <<"Í³", <<"Í²">>>>,
   <<"Í·", <<"Í¶">>>>, <<"Í»", <<"Ï½">>>>, <<"Í¼", <<"Ï¾">>>>, <<"Í½", <<"Ï¿">>>>,
   <<"Î", <<"Î", "Ì", "Ì">>>>, <<"Î¬", <<"Î">>>>, <<"Î­", <<"Î">>>>, <<"Î®", <<"Î">>>>,
   <<"Î¯", <<"Î">>>>, <<"Î°", <<"Î¥", "Ì", "Ì">>>>, <<"Î±", <<"Î">>>>, <<"Î²", <<"Î">>>>,
   <<"Î³", <<"Î">>>>, <<"Î´", <<"Î">>>>, <<"Îµ", <<"Î">>>>, <<"Î¶", <<"Î">>>>,
   <<"Î·", <<"Î">>>>, <<"Î¸", <<"Î">>>>, <<"Î¹", <<"Î">>>>, <<"Îº", <<"Î">>>>,
   <<"Î»", <<"Î">>>>, <<"Î¼", <<"Î">>>>, <<"Î½", <<"Î">>>>, <<"Î¾", <<"Î">>>>,
   <<"Î¿", <<"Î">>>>, <<"Ï", <<"Î ">>>>, <<"Ï", <<"Î¡">>>>, <<"Ï", <<"Î£">>>>,
   <<"Ï", <<"Î£">>>>, <<"Ï", <<"Î¤">>>>, <<"Ï", <<"Î¥">>>>, <<"Ï", <<"Î¦">>>>,
   <<"Ï", <<"Î§">>>>, <<"Ï", <<"Î¨">>>>, <<"Ï", <<"Î©">>>>, <<"Ï", <<"Îª">>>>,
   <<"Ï", <<"Î«">>>>, <<"Ï", <<"Î">>>>, <<"Ï", <<"Î">>>>, <<"Ï", <<"Î">>>>,
   <<"Ï", <<"Î">>>>, <<"Ï", <<"Î">>>>, <<"Ï", <<"Î¦">>>>, <<"Ï", <<"Î ">>>>,
   <<"Ï", <<"Ï">>>>, <<"Ï", <<"Ï">>>>, <<"Ï", <<"Ï">>>>, <<"Ï", <<"Ï">>>>,
   <<"Ï", <<"Ï">>>>, <<"Ï¡", <<"Ï ">>>>, <<"Ï£", <<"Ï¢">>>>, <<"Ï¥", <<"Ï¤">>>>,
   <<"Ï§", <<"Ï¦">>>>, <<"Ï©", <<"Ï¨">>>>, <<"Ï«", <<"Ïª">>>>, <<"Ï­", <<"Ï¬">>>>,
   <<"Ï¯", <<"Ï®">>>>, <<"Ï°", <<"Î">>>>, <<"Ï±", <<"Î¡">>>>, <<"Ï²", <<"Ï¹">>>>,
   <<"Ï³", <<"Í¿">>>>, <<"Ïµ", <<"Î">>>>, <<"Ï¸", <<"Ï·">>>>, <<"Ï»", <<"Ïº">>>>,
   <<"Ð°", <<"Ð">>>>, <<"Ð±", <<"Ð">>>>, <<"Ð²", <<"Ð">>>>, <<"Ð³", <<"Ð">>>>,
   <<"Ð´", <<"Ð">>>>, <<"Ðµ", <<"Ð">>>>, <<"Ð¶", <<"Ð">>>>, <<"Ð·", <<"Ð">>>>,
   <<"Ð¸", <<"Ð">>>>, <<"Ð¹", <<"Ð">>>>, <<"Ðº", <<"Ð">>>>, <<"Ð»", <<"Ð">>>>,
   <<"Ð¼", <<"Ð">>>>, <<"Ð½", <<"Ð">>>>, <<"Ð¾", <<"Ð">>>>, <<"Ð¿", <<"Ð">>>>,
   <<"Ñ", <<"Ð ">>>>, <<"Ñ", <<"Ð¡">>>>, <<"Ñ", <<"Ð¢">>>>, <<"Ñ", <<"Ð£">>>>,
   <<"Ñ", <<"Ð¤">>>>, <<"Ñ", <<"Ð¥">>>>, <<"Ñ", <<"Ð¦">>>>, <<"Ñ", <<"Ð§">>>>,
   <<"Ñ", <<"Ð¨">>>>, <<"Ñ", <<"Ð©">>>>, <<"Ñ", <<"Ðª">>>>, <<"Ñ", <<"Ð«">>>>,
   <<"Ñ", <<"Ð¬">>>>, <<"Ñ", <<"Ð­">>>>, <<"Ñ", <<"Ð®">>>>, <<"Ñ", <<"Ð¯">>>>,
   <<"Ñ", <<"Ð">>>>, <<"Ñ", <<"Ð">>>>, <<"Ñ", <<"Ð">>>>, <<"Ñ", <<"Ð">>>>,
   <<"Ñ", <<"Ð">>>>, <<"Ñ", <<"Ð">>>>, <<"Ñ", <<"Ð">>>>, <<"Ñ", <<"Ð">>>>,
   <<"Ñ", <<"Ð">>>>, <<"Ñ", <<"Ð">>>>, <<"Ñ", <<"Ð">>>>, <<"Ñ", <<"Ð">>>>,
   <<"Ñ", <<"Ð">>>>, <<"Ñ", <<"Ð">>>>, <<"Ñ", <<"Ð">>>>, <<"Ñ", <<"Ð">>>>,
   <<"Ñ¡", <<"Ñ ">>>>, <<"Ñ£", <<"Ñ¢">>>>, <<"Ñ¥", <<"Ñ¤">>>>, <<"Ñ§", <<"Ñ¦">>>>,
   <<"Ñ©", <<"Ñ¨">>>>, <<"Ñ«", <<"Ñª">>>>, <<"Ñ­", <<"Ñ¬">>>>, <<"Ñ¯", <<"Ñ®">>>>,
   <<"Ñ±", <<"Ñ°">>>>, <<"Ñ³", <<"Ñ²">>>>, <<"Ñµ", <<"Ñ´">>>>, <<"Ñ·", <<"Ñ¶">>>>,
   <<"Ñ¹", <<"Ñ¸">>>>, <<"Ñ»", <<"Ñº">>>>, <<"Ñ½", <<"Ñ¼">>>>, <<"Ñ¿", <<"Ñ¾">>>>,
   <<"Ò", <<"Ò">>>>, <<"Ò", <<"Ò">>>>, <<"Ò", <<"Ò">>>>, <<"Ò", <<"Ò">>>>,
   <<"Ò", <<"Ò">>>>, <<"Ò", <<"Ò">>>>, <<"Ò", <<"Ò">>>>, <<"Ò", <<"Ò">>>>,
   <<"Ò", <<"Ò">>>>, <<"Ò", <<"Ò">>>>, <<"Ò", <<"Ò">>>>, <<"Ò", <<"Ò">>>>,
   <<"Ò¡", <<"Ò ">>>>, <<"Ò£", <<"Ò¢">>>>, <<"Ò¥", <<"Ò¤">>>>, <<"Ò§", <<"Ò¦">>>>,
   <<"Ò©", <<"Ò¨">>>>, <<"Ò«", <<"Òª">>>>, <<"Ò­", <<"Ò¬">>>>, <<"Ò¯", <<"Ò®">>>>,
   <<"Ò±", <<"Ò°">>>>, <<"Ò³", <<"Ò²">>>>, <<"Òµ", <<"Ò´">>>>, <<"Ò·", <<"Ò¶">>>>,
   <<"Ò¹", <<"Ò¸">>>>, <<"Ò»", <<"Òº">>>>, <<"Ò½", <<"Ò¼">>>>, <<"Ò¿", <<"Ò¾">>>>,
   <<"Ó", <<"Ó">>>>, <<"Ó", <<"Ó">>>>, <<"Ó", <<"Ó">>>>, <<"Ó", <<"Ó">>>>,
   <<"Ó", <<"Ó">>>>, <<"Ó", <<"Ó">>>>, <<"Ó", <<"Ó">>>>, <<"Ó", <<"Ó">>>>,
   <<"Ó", <<"Ó">>>>, <<"Ó", <<"Ó">>>>, <<"Ó", <<"Ó">>>>, <<"Ó", <<"Ó">>>>,
   <<"Ó", <<"Ó">>>>, <<"Ó", <<"Ó">>>>, <<"Ó", <<"Ó">>>>, <<"Ó", <<"Ó">>>>,
   <<"Ó¡", <<"Ó ">>>>, <<"Ó£", <<"Ó¢">>>>, <<"Ó¥", <<"Ó¤">>>>, <<"Ó§", <<"Ó¦">>>>,
   <<"Ó©", <<"Ó¨">>>>, <<"Ó«", <<"Óª">>>>, <<"Ó­", <<"Ó¬">>>>, <<"Ó¯", <<"Ó®">>>>,
   <<"Ó±", <<"Ó°">>>>, <<"Ó³", <<"Ó²">>>>, <<"Óµ", <<"Ó´">>>>, <<"Ó·", <<"Ó¶">>>>,
   <<"Ó¹", <<"Ó¸">>>>, <<"Ó»", <<"Óº">>>>, <<"Ó½", <<"Ó¼">>>>, <<"Ó¿", <<"Ó¾">>>>,
   <<"Ô", <<"Ô">>>>, <<"Ô", <<"Ô">>>>, <<"Ô", <<"Ô">>>>, <<"Ô", <<"Ô">>>>,
   <<"Ô", <<"Ô">>>>, <<"Ô", <<"Ô">>>>, <<"Ô", <<"Ô">>>>, <<"Ô", <<"Ô">>>>,
   <<"Ô", <<"Ô">>>>, <<"Ô", <<"Ô">>>>, <<"Ô", <<"Ô">>>>, <<"Ô", <<"Ô">>>>,
   <<"Ô", <<"Ô">>>>, <<"Ô", <<"Ô">>>>, <<"Ô", <<"Ô">>>>, <<"Ô", <<"Ô">>>>,
   <<"Ô¡", <<"Ô ">>>>, <<"Ô£", <<"Ô¢">>>>, <<"Ô¥", <<"Ô¤">>>>, <<"Ô§", <<"Ô¦">>>>,
   <<"Ô©", <<"Ô¨">>>>, <<"Ô«", <<"Ôª">>>>, <<"Ô­", <<"Ô¬">>>>, <<"Ô¯", <<"Ô®">>>>,
   <<"Õ¡", <<"Ô±">>>>, <<"Õ¢", <<"Ô²">>>>, <<"Õ£", <<"Ô³">>>>, <<"Õ¤", <<"Ô´">>>>,
   <<"Õ¥", <<"Ôµ">>>>, <<"Õ¦", <<"Ô¶">>>>, <<"Õ§", <<"Ô·">>>>, <<"Õ¨", <<"Ô¸">>>>,
   <<"Õ©", <<"Ô¹">>>>, <<"Õª", <<"Ôº">>>>, <<"Õ«", <<"Ô»">>>>, <<"Õ¬", <<"Ô¼">>>>,
   <<"Õ­", <<"Ô½">>>>, <<"Õ®", <<"Ô¾">>>>, <<"Õ¯", <<"Ô¿">>>>, <<"Õ°", <<"Õ">>>>,
   <<"Õ±", <<"Õ">>>>, <<"Õ²", <<"Õ">>>>, <<"Õ³", <<"Õ">>>>, <<"Õ´", <<"Õ">>>>,
   <<"Õµ", <<"Õ">>>>, <<"Õ¶", <<"Õ">>>>, <<"Õ·", <<"Õ">>>>, <<"Õ¸", <<"Õ">>>>,
   <<"Õ¹", <<"Õ">>>>, <<"Õº", <<"Õ">>>>, <<"Õ»", <<"Õ">>>>, <<"Õ¼", <<"Õ">>>>,
   <<"Õ½", <<"Õ">>>>, <<"Õ¾", <<"Õ">>>>, <<"Õ¿", <<"Õ">>>>, <<"Ö", <<"Õ">>>>,
   <<"Ö", <<"Õ">>>>, <<"Ö", <<"Õ">>>>, <<"Ö", <<"Õ">>>>, <<"Ö", <<"Õ">>>>,
   <<"Ö", <<"Õ">>>>, <<"Ö", <<"Õ">>>>, <<"Ö", <<"Ôµ", "Ö">>>>, <<"á¸", <<"á°">>>>,
   <<"á¹", <<"á±">>>>, <<"áº", <<"á²">>>>, <<"á»", <<"á³">>>>, <<"á¼", <<"á´">>>>,
   <<"á½", <<"áµ">>>>, <<"á²", <<"Ð">>>>, <<"á²", <<"Ð">>>>, <<"á²", <<"Ð">>>>,
   <<"á²", <<"Ð¡">>>>, <<"á²", <<"Ð¢">>>>, <<"á²", <<"Ð¢">>>>, <<"á²", <<"Ðª">>>>,
   <<"á²", <<"Ñ¢">>>>, <<"á²", <<"ê">>>>, <<"áµ¹", <<"ê½">>>>, <<"áµ½", <<"â±£">>>>,
   <<"á¶", <<"ê">>>>, <<"á¸", <<"á¸">>>>, <<"á¸", <<"á¸">>>>, <<"á¸", <<"á¸">>>>,
   <<"á¸", <<"á¸">>>>, <<"á¸", <<"á¸">>>>, <<"á¸", <<"á¸">>>>, <<"á¸", <<"á¸">>>>,
   <<"á¸", <<"á¸">>>>, <<"á¸", <<"á¸">>>>, <<"á¸", <<"á¸">>>>, <<"á¸", <<"á¸">>>>,
   <<"á¸", <<"á¸">>>>, <<"á¸", <<"á¸">>>>, <<"á¸", <<"á¸">>>>, <<"á¸", <<"á¸">>>>,
   <<"á¸", <<"á¸">>>>, <<"á¸¡", <<"á¸ ">>>>, <<"á¸£", <<"á¸¢">>>>, <<"á¸¥", <<"á¸¤">>>>,
   <<"á¸§", <<"á¸¦">>>>, <<"á¸©", <<"á¸¨">>>>, <<"á¸«", <<"á¸ª">>>>, <<"á¸­", <<"á¸¬">>>>,
   <<"á¸¯", <<"á¸®">>>>, <<"á¸±", <<"á¸°">>>>, <<"á¸³", <<"á¸²">>>>, <<"á¸µ", <<"á¸´">>>>,
   <<"á¸·", <<"á¸¶">>>>, <<"á¸¹", <<"á¸¸">>>>, <<"á¸»", <<"á¸º">>>>, <<"á¸½", <<"á¸¼">>>>,
   <<"á¸¿", <<"á¸¾">>>>, <<"á¹", <<"á¹">>>>, <<"á¹", <<"á¹">>>>, <<"á¹", <<"á¹">>>>,
   <<"á¹", <<"á¹">>>>, <<"á¹", <<"á¹">>>>, <<"á¹", <<"á¹">>>>, <<"á¹", <<"á¹">>>>,
   <<"á¹", <<"á¹">>>>, <<"á¹", <<"á¹">>>>, <<"á¹", <<"á¹">>>>, <<"á¹", <<"á¹">>>>,
   <<"á¹", <<"á¹">>>>, <<"á¹", <<"á¹">>>>, <<"á¹", <<"á¹">>>>, <<"á¹", <<"á¹">>>>,
   <<"á¹", <<"á¹">>>>, <<"á¹¡", <<"á¹ ">>>>, <<"á¹£", <<"á¹¢">>>>, <<"á¹¥", <<"á¹¤">>>>,
   <<"á¹§", <<"á¹¦">>>>, <<"á¹©", <<"á¹¨">>>>, <<"á¹«", <<"á¹ª">>>>, <<"á¹­", <<"á¹¬">>>>,
   <<"á¹¯", <<"á¹®">>>>, <<"á¹±", <<"á¹°">>>>, <<"á¹³", <<"á¹²">>>>, <<"á¹µ", <<"á¹´">>>>,
   <<"á¹·", <<"á¹¶">>>>, <<"á¹¹", <<"á¹¸">>>>, <<"á¹»", <<"á¹º">>>>, <<"á¹½", <<"á¹¼">>>>,
   <<"á¹¿", <<"á¹¾">>>>, <<"áº", <<"áº">>>>, <<"áº", <<"áº">>>>, <<"áº", <<"áº">>>>,
   <<"áº", <<"áº">>>>, <<"áº", <<"áº">>>>, <<"áº", <<"áº">>>>, <<"áº", <<"áº">>>>,
   <<"áº", <<"áº">>>>, <<"áº", <<"áº">>>>, <<"áº", <<"áº">>>>, <<"áº", <<"áº">>>>,
   <<"áº", <<"H", "Ì±">>>>, <<"áº", <<"T", "Ì">>>>, <<"áº", <<"W", "Ì">>>>,
   <<"áº", <<"Y", "Ì">>>>, <<"áº", <<"A", "Ê¾">>>>, <<"áº", <<"á¹ ">>>>,
   <<"áº¡", <<"áº ">>>>, <<"áº£", <<"áº¢">>>>, <<"áº¥", <<"áº¤">>>>, <<"áº§", <<"áº¦">>>>,
   <<"áº©", <<"áº¨">>>>, <<"áº«", <<"áºª">>>>, <<"áº­", <<"áº¬">>>>, <<"áº¯", <<"áº®">>>>,
   <<"áº±", <<"áº°">>>>, <<"áº³", <<"áº²">>>>, <<"áºµ", <<"áº´">>>>, <<"áº·", <<"áº¶">>>>,
   <<"áº¹", <<"áº¸">>>>, <<"áº»", <<"áºº">>>>, <<"áº½", <<"áº¼">>>>, <<"áº¿", <<"áº¾">>>>,
   <<"á»", <<"á»">>>>, <<"á»", <<"á»">>>>, <<"á»", <<"á»">>>>, <<"á»", <<"á»">>>>,
   <<"á»", <<"á»">>>>, <<"á»", <<"á»">>>>, <<"á»", <<"á»">>>>, <<"á»", <<"á»">>>>,
   <<"á»", <<"á»">>>>, <<"á»", <<"á»">>>>, <<"á»", <<"á»">>>>, <<"á»", <<"á»">>>>,
   <<"á»", <<"á»">>>>, <<"á»", <<"á»">>>>, <<"á»", <<"á»">>>>, <<"á»", <<"á»">>>>,
   <<"á»¡", <<"á» ">>>>, <<"á»£", <<"á»¢">>>>, <<"á»¥", <<"á»¤">>>>, <<"á»§", <<"á»¦">>>>,
   <<"á»©", <<"á»¨">>>>, <<"á»«", <<"á»ª">>>>, <<"á»­", <<"á»¬">>>>, <<"á»¯", <<"á»®">>>>,
   <<"á»±", <<"á»°">>>>, <<"á»³", <<"á»²">>>>, <<"á»µ", <<"á»´">>>>, <<"á»·", <<"á»¶">>>>,
   <<"á»¹", <<"á»¸">>>>, <<"á»»", <<"á»º">>>>, <<"á»½", <<"á»¼">>>>, <<"á»¿", <<"á»¾">>>>,
   <<"á¼", <<"á¼">>>>, <<"á¼", <<"á¼">>>>, <<"á¼", <<"á¼">>>>, <<"á¼", <<"á¼">>>>,
   <<"á¼", <<"á¼">>>>, <<"á¼", <<"á¼">>>>, <<"á¼", <<"á¼">>>>, <<"á¼", <<"á¼">>>>,
   <<"á¼", <<"á¼">>>>, <<"á¼", <<"á¼">>>>, <<"á¼", <<"á¼">>>>, <<"á¼", <<"á¼">>>>,
   <<"á¼", <<"á¼">>>>, <<"á¼", <<"á¼">>>>, <<"á¼ ", <<"á¼¨">>>>, <<"á¼¡", <<"á¼©">>>>,
   <<"á¼¢", <<"á¼ª">>>>, <<"á¼£", <<"á¼«">>>>, <<"á¼¤", <<"á¼¬">>>>, <<"á¼¥", <<"á¼­">>>>,
   <<"á¼¦", <<"á¼®">>>>, <<"á¼§", <<"á¼¯">>>>, <<"á¼°", <<"á¼¸">>>>, <<"á¼±", <<"á¼¹">>>>,
   <<"á¼²", <<"á¼º">>>>, <<"á¼³", <<"á¼»">>>>, <<"á¼´", <<"á¼¼">>>>, <<"á¼µ", <<"á¼½">>>>,
   <<"á¼¶", <<"á¼¾">>>>, <<"á¼·", <<"á¼¿">>>>, <<"á½", <<"á½">>>>, <<"á½", <<"á½">>>>,
   <<"á½", <<"á½">>>>, <<"á½", <<"á½">>>>, <<"á½", <<"á½">>>>, <<"á½", <<"á½">>>>,
   <<"á½", <<"Î¥", "Ì">>>>, <<"á½", <<"á½">>>>, <<"á½", <<"Î¥", "Ì", "Ì">>>>,
   <<"á½", <<"á½">>>>, <<"á½", <<"Î¥", "Ì", "Ì">>>>, <<"á½", <<"á½">>>>,
   <<"á½", <<"Î¥", "Ì", "Í">>>>, <<"á½", <<"á½">>>>, <<"á½ ", <<"á½¨">>>>,
   <<"á½¡", <<"á½©">>>>, <<"á½¢", <<"á½ª">>>>, <<"á½£", <<"á½«">>>>, <<"á½¤", <<"á½¬">>>>,
   <<"á½¥", <<"á½­">>>>, <<"á½¦", <<"á½®">>>>, <<"á½§", <<"á½¯">>>>, <<"á½°", <<"á¾º">>>>,
   <<"á½±", <<"á¾»">>>>, <<"á½²", <<"á¿">>>>, <<"á½³", <<"á¿">>>>, <<"á½´", <<"á¿">>>>,
   <<"á½µ", <<"á¿">>>>, <<"á½¶", <<"á¿">>>>, <<"á½·", <<"á¿">>>>, <<"á½¸", <<"á¿¸">>>>,
   <<"á½¹", <<"á¿¹">>>>, <<"á½º", <<"á¿ª">>>>, <<"á½»", <<"á¿«">>>>, <<"á½¼", <<"á¿º">>>>,
   <<"á½½", <<"á¿»">>>>, <<"á¾", <<"á¾">>>>, <<"á¾", <<"á¾">>>>, <<"á¾", <<"á¾">>>>,
   <<"á¾", <<"á¾">>>>, <<"á¾", <<"á¾">>>>, <<"á¾", <<"á¾">>>>, <<"á¾", <<"á¾">>>>,
   <<"á¾", <<"á¾">>>>, <<"á¾", <<"á¾">>>>, <<"á¾", <<"á¾">>>>, <<"á¾", <<"á¾">>>>,
   <<"á¾", <<"á¾">>>>, <<"á¾", <<"á¾">>>>, <<"á¾", <<"á¾">>>>, <<"á¾", <<"á¾">>>>,
   <<"á¾", <<"á¾">>>>, <<"á¾ ", <<"á¾¨">>>>, <<"á¾¡", <<"á¾©">>>>, <<"á¾¢", <<"á¾ª">>>>,
   <<"á¾£", <<"á¾«">>>>, <<"á¾¤", <<"á¾¬">>>>, <<"á¾¥", <<"á¾­">>>>, <<"á¾¦", <<"á¾®">>>>,
   <<"á¾§", <<"á¾¯">>>>, <<"á¾°", <<"á¾¸">>>>, <<"á¾±", <<"á¾¹">>>>,
   <<"á¾²", <<"á¾º", "Í">>>>, <<"á¾³", <<"á¾¼">>>>, <<"á¾´", <<"Î", "Í">>>>,
   <<"á¾¶", <<"Î", "Í">>>>, <<"á¾·", <<"Î", "Í", "Í">>>>, <<"á¾¾", <<"Î">>>>,
   <<"á¿", <<"á¿", "Í">>>>, <<"á¿", <<"á¿">>>>, <<"á¿", <<"Î", "Í">>>>,
   <<"á¿", <<"Î", "Í">>>>, <<"á¿", <<"Î", "Í", "Í">>>>, <<"á¿", <<"á¿">>>>,
   <<"á¿", <<"á¿">>>>, <<"á¿", <<"Î", "Ì", "Ì">>>>, <<"á¿", <<"Î", "Ì", "Ì">>>>,
   <<"á¿", <<"Î", "Í">>>>, <<"á¿", <<"Î", "Ì", "Í">>>>, <<"á¿ ", <<"á¿¨">>>>,
   <<"á¿¡", <<"á¿©">>>>, <<"á¿¢", <<"Î¥", "Ì", "Ì">>>>, <<"á¿£", <<"Î¥", "Ì", "Ì">>>>,
   <<"á¿¤", <<"Î¡", "Ì">>>>, <<"á¿¥", <<"á¿¬">>>>, <<"á¿¦", <<"Î¥", "Í">>>>,
   <<"á¿§", <<"Î¥", "Ì", "Í">>>>, <<"á¿²", <<"á¿º", "Í">>>>, <<"á¿³", <<"á¿¼">>>>,
   <<"á¿´", <<"Î", "Í">>>>, <<"á¿¶", <<"Î©", "Í">>>>, <<"á¿·", <<"Î©", "Í", "Í">>>>,
   <<"â", <<"â²">>>>, <<"â°", <<"â ">>>>, <<"â±", <<"â¡">>>>, <<"â²", <<"â¢">>>>,
   <<"â³", <<"â£">>>>, <<"â´", <<"â¤">>>>, <<"âµ", <<"â¥">>>>, <<"â¶", <<"â¦">>>>,
   <<"â·", <<"â§">>>>, <<"â¸", <<"â¨">>>>, <<"â¹", <<"â©">>>>, <<"âº", <<"âª">>>>,
   <<"â»", <<"â«">>>>, <<"â¼", <<"â¬">>>>, <<"â½", <<"â­">>>>, <<"â¾", <<"â®">>>>,
   <<"â¿", <<"â¯">>>>, <<"â", <<"â">>>>, <<"â", <<"â¶">>>>, <<"â", <<"â·">>>>,
   <<"â", <<"â¸">>>>, <<"â", <<"â¹">>>>, <<"â", <<"âº">>>>, <<"â", <<"â»">>>>,
   <<"â", <<"â¼">>>>, <<"â", <<"â½">>>>, <<"â", <<"â¾">>>>, <<"â", <<"â¿">>>>,
   <<"â", <<"â">>>>, <<"â", <<"â">>>>, <<"â", <<"â">>>>, <<"â", <<"â">>>>,
   <<"â", <<"â">>>>, <<"â", <<"â">>>>, <<"â ", <<"â">>>>, <<"â¡", <<"â">>>>,
   <<"â¢", <<"â">>>>, <<"â£", <<"â">>>>, <<"â¤", <<"â">>>>, <<"â¥", <<"â">>>>,
   <<"â¦", <<"â">>>>, <<"â§", <<"â">>>>, <<"â¨", <<"â">>>>, <<"â©", <<"â">>>>,
   <<"â°°", <<"â°">>>>, <<"â°±", <<"â°">>>>, <<"â°²", <<"â°">>>>, <<"â°³", <<"â°">>>>,
   <<"â°´", <<"â°">>>>, <<"â°µ", <<"â°">>>>, <<"â°¶", <<"â°">>>>, <<"â°·", <<"â°">>>>,
   <<"â°¸", <<"â°">>>>, <<"â°¹", <<"â°">>>>, <<"â°º", <<"â°">>>>, <<"â°»", <<"â°">>>>,
   <<"â°¼", <<"â°">>>>, <<"â°½", <<"â°">>>>, <<"â°¾", <<"â°">>>>, <<"â°¿", <<"â°">>>>,
   <<"â±", <<"â°">>>>, <<"â±", <<"â°">>>>, <<"â±", <<"â°">>>>, <<"â±", <<"â°">>>>,
   <<"â±", <<"â°">>>>, <<"â±", <<"â°">>>>, <<"â±", <<"â°">>>>, <<"â±", <<"â°">>>>,
   <<"â±", <<"â°">>>>, <<"â±", <<"â°">>>>, <<"â±", <<"â°">>>>, <<"â±", <<"â°">>>>,
   <<"â±", <<"â°">>>>, <<"â±", <<"â°">>>>, <<"â±", <<"â°">>>>, <<"â±", <<"â°">>>>,
   <<"â±", <<"â° ">>>>, <<"â±", <<"â°¡">>>>, <<"â±", <<"â°¢">>>>, <<"â±", <<"â°£">>>>,
   <<"â±", <<"â°¤">>>>, <<"â±", <<"â°¥">>>>, <<"â±", <<"â°¦">>>>, <<"â±", <<"â°§">>>>,
   <<"â±", <<"â°¨">>>>, <<"â±", <<"â°©">>>>, <<"â±", <<"â°ª">>>>, <<"â±", <<"â°«">>>>,
   <<"â±", <<"â°¬">>>>, <<"â±", <<"â°­">>>>, <<"â±", <<"â°®">>>>, <<"â±", <<"â°¯">>>>,
   <<"â±¡", <<"â± ">>>>, <<"â±¥", <<"Èº">>>>, <<"â±¦", <<"È¾">>>>, <<"â±¨", <<"â±§">>>>,
   <<"â±ª", <<"â±©">>>>, <<"â±¬", <<"â±«">>>>, <<"â±³", <<"â±²">>>>, <<"â±¶", <<"â±µ">>>>,
   <<"â²", <<"â²">>>>, <<"â²", <<"â²">>>>, <<"â²", <<"â²">>>>, <<"â²", <<"â²">>>>,
   <<"â²", <<"â²">>>>, <<"â²", <<"â²">>>>, <<"â²", <<"â²">>>>, <<"â²", <<"â²">>>>,
   <<"â²", <<"â²">>>>, <<"â²", <<"â²">>>>, <<"â²", <<"â²">>>>, <<"â²", <<"â²">>>>,
   <<"â²", <<"â²">>>>, <<"â²", <<"â²">>>>, <<"â²", <<"â²">>>>, <<"â²", <<"â²">>>>,
   <<"â²¡", <<"â² ">>>>, <<"â²£", <<"â²¢">>>>, <<"â²¥", <<"â²¤">>>>, <<"â²§", <<"â²¦">>>>,
   <<"â²©", <<"â²¨">>>>, <<"â²«", <<"â²ª">>>>, <<"â²­", <<"â²¬">>>>, <<"â²¯", <<"â²®">>>>,
   <<"â²±", <<"â²°">>>>, <<"â²³", <<"â²²">>>>, <<"â²µ", <<"â²´">>>>, <<"â²·", <<"â²¶">>>>,
   <<"â²¹", <<"â²¸">>>>, <<"â²»", <<"â²º">>>>, <<"â²½", <<"â²¼">>>>, <<"â²¿", <<"â²¾">>>>,
   <<"â³", <<"â³">>>>, <<"â³", <<"â³">>>>, <<"â³", <<"â³">>>>, <<"â³", <<"â³">>>>,
   <<"â³", <<"â³">>>>, <<"â³", <<"â³">>>>, <<"â³", <<"â³">>>>, <<"â³", <<"â³">>>>,
   <<"â³", <<"â³">>>>, <<"â³", <<"â³">>>>, <<"â³", <<"â³">>>>, <<"â³", <<"â³">>>>,
   <<"â³", <<"â³">>>>, <<"â³", <<"â³">>>>, <<"â³", <<"â³">>>>, <<"â³", <<"â³">>>>,
   <<"â³¡", <<"â³ ">>>>, <<"â³£", <<"â³¢">>>>, <<"â³¬", <<"â³«">>>>, <<"â³®", <<"â³­">>>>,
   <<"â³³", <<"â³²">>>>, <<"â´", <<"á ">>>>, <<"â´", <<"á¡">>>>, <<"â´", <<"á¢">>>>,
   <<"â´", <<"á£">>>>, <<"â´", <<"á¤">>>>, <<"â´", <<"á¥">>>>, <<"â´", <<"á¦">>>>,
   <<"â´", <<"á§">>>>, <<"â´", <<"á¨">>>>, <<"â´", <<"á©">>>>, <<"â´", <<"áª">>>>,
   <<"â´", <<"á«">>>>, <<"â´", <<"á¬">>>>, <<"â´", <<"á­">>>>, <<"â´", <<"á®">>>>,
   <<"â´", <<"á¯">>>>, <<"â´", <<"á°">>>>, <<"â´", <<"á±">>>>, <<"â´", <<"á²">>>>,
   <<"â´", <<"á³">>>>, <<"â´", <<"á´">>>>, <<"â´", <<"áµ">>>>, <<"â´", <<"á¶">>>>,
   <<"â´", <<"á·">>>>, <<"â´", <<"á¸">>>>, <<"â´", <<"á¹">>>>, <<"â´", <<"áº">>>>,
   <<"â´", <<"á»">>>>, <<"â´", <<"á¼">>>>, <<"â´", <<"á½">>>>, <<"â´", <<"á¾">>>>,
   <<"â´", <<"á¿">>>>, <<"â´ ", <<"á">>>>, <<"â´¡", <<"á">>>>, <<"â´¢", <<"á">>>>,
   <<"â´£", <<"á">>>>, <<"â´¤", <<"á">>>>, <<"â´¥", <<"á">>>>, <<"â´§", <<"á">>>>,
   <<"â´­", <<"á">>>>, <<"ê", <<"ê">>>>, <<"ê", <<"ê">>>>, <<"ê", <<"ê">>>>,
   <<"ê", <<"ê">>>>, <<"ê", <<"ê">>>>, <<"ê", <<"ê">>>>, <<"ê", <<"ê">>>>,
   <<"ê", <<"ê">>>>, <<"ê", <<"ê">>>>, <<"ê", <<"ê">>>>, <<"ê", <<"ê">>>>,
   <<"ê", <<"ê">>>>, <<"ê", <<"ê">>>>, <<"ê", <<"ê">>>>, <<"ê", <<"ê">>>>,
   <<"ê", <<"ê">>>>, <<"ê¡", <<"ê ">>>>, <<"ê£", <<"ê¢">>>>, <<"ê¥", <<"ê¤">>>>,
   <<"ê§", <<"ê¦">>>>, <<"ê©", <<"ê¨">>>>, <<"ê«", <<"êª">>>>, <<"ê­", <<"ê¬">>>>,
   <<"ê", <<"ê">>>>, <<"ê", <<"ê">>>>, <<"ê", <<"ê">>>>, <<"ê", <<"ê">>>>,
   <<"ê", <<"ê">>>>, <<"ê", <<"ê">>>>, <<"ê", <<"ê">>>>, <<"ê", <<"ê">>>>,
   <<"ê", <<"ê">>>>, <<"ê", <<"ê">>>>, <<"ê", <<"ê">>>>, <<"ê", <<"ê">>>>,
   <<"ê", <<"ê">>>>, <<"ê", <<"ê">>>>, <<"ê£", <<"ê¢">>>>, <<"ê¥", <<"ê¤">>>>,
   <<"ê§", <<"ê¦">>>>, <<"ê©", <<"ê¨">>>>, <<"ê«", <<"êª">>>>, <<"ê­", <<"ê¬">>>>,
   <<"ê¯", <<"ê®">>>>, <<"ê³", <<"ê²">>>>, <<"êµ", <<"ê´">>>>, <<"ê·", <<"ê¶">>>>,
   <<"ê¹", <<"ê¸">>>>, <<"ê»", <<"êº">>>>, <<"ê½", <<"ê¼">>>>, <<"ê¿", <<"ê¾">>>>,
   <<"ê", <<"ê">>>>, <<"ê", <<"ê">>>>, <<"ê", <<"ê">>>>, <<"ê", <<"ê">>>>,
   <<"ê", <<"ê">>>>, <<"ê", <<"ê">>>>, <<"ê", <<"ê">>>>, <<"ê", <<"ê">>>>,
   <<"ê", <<"ê">>>>, <<"ê", <<"ê">>>>, <<"ê", <<"ê">>>>, <<"ê", <<"ê">>>>,
   <<"ê", <<"ê">>>>, <<"ê", <<"ê">>>>, <<"ê", <<"ê">>>>, <<"ê", <<"ê">>>>,
   <<"ê¡", <<"ê ">>>>, <<"ê£", <<"ê¢">>>>, <<"ê¥", <<"ê¤">>>>, <<"ê§", <<"ê¦">>>>,
   <<"ê©", <<"ê¨">>>>, <<"ê«", <<"êª">>>>, <<"ê­", <<"ê¬">>>>, <<"ê¯", <<"ê®">>>>,
   <<"êº", <<"ê¹">>>>, <<"ê¼", <<"ê»">>>>, <<"ê¿", <<"ê¾">>>>, <<"ê", <<"ê">>>>,
   <<"ê", <<"ê">>>>, <<"ê", <<"ê">>>>, <<"ê", <<"ê">>>>, <<"ê", <<"ê">>>>,
   <<"ê", <<"ê">>>>, <<"ê", <<"ê">>>>, <<"ê", <<"ê">>>>, <<"ê", <<"ê">>>>,
   <<"ê", <<"ê">>>>, <<"ê", <<"ê">>>>, <<"ê", <<"ê">>>>, <<"ê", <<"ê">>>>,
   <<"ê¡", <<"ê ">>>>, <<"ê£", <<"ê¢">>>>, <<"ê¥", <<"ê¤">>>>, <<"ê§", <<"ê¦">>>>,
   <<"ê©", <<"ê¨">>>>, <<"êµ", <<"ê´">>>>, <<"ê·", <<"ê¶">>>>, <<"ê¹", <<"ê¸">>>>,
   <<"ê»", <<"êº">>>>, <<"ê½", <<"ê¼">>>>, <<"ê¿", <<"ê¾">>>>, <<"ê", <<"ê">>>>,
   <<"ê", <<"ê">>>>, <<"ê", <<"ê">>>>, <<"ê", <<"ê">>>>, <<"ê", <<"ê">>>>,
   <<"ê", <<"ê">>>>, <<"ê", <<"ê">>>>, <<"ê¶", <<"êµ">>>>, <<"ê­", <<"ê³">>>>,
   <<"ê­°", <<"á ">>>>, <<"ê­±", <<"á¡">>>>, <<"ê­²", <<"á¢">>>>, <<"ê­³", <<"á£">>>>,
   <<"ê­´", <<"á¤">>>>, <<"ê­µ", <<"á¥">>>>, <<"ê­¶", <<"á¦">>>>, <<"ê­·", <<"á§">>>>,
   <<"ê­¸", <<"á¨">>>>, <<"ê­¹", <<"á©">>>>, <<"ê­º", <<"áª">>>>, <<"ê­»", <<"á«">>>>,
   <<"ê­¼", <<"á¬">>>>, <<"ê­½", <<"á­">>>>, <<"ê­¾", <<"á®">>>>, <<"ê­¿", <<"á¯">>>>,
   <<"ê®", <<"á°">>>>, <<"ê®", <<"á±">>>>, <<"ê®", <<"á²">>>>, <<"ê®", <<"á³">>>>,
   <<"ê®", <<"á´">>>>, <<"ê®", <<"áµ">>>>, <<"ê®", <<"á¶">>>>, <<"ê®", <<"á·">>>>,
   <<"ê®", <<"á¸">>>>, <<"ê®", <<"á¹">>>>, <<"ê®", <<"áº">>>>, <<"ê®", <<"á»">>>>,
   <<"ê®", <<"á¼">>>>, <<"ê®", <<"á½">>>>, <<"ê®", <<"á¾">>>>, <<"ê®", <<"á¿">>>>,
   <<"ê®", <<"á">>>>, <<"ê®", <<"á">>>>, <<"ê®", <<"á">>>>, <<"ê®", <<"á">>>>,
   <<"ê®", <<"á">>>>, <<"ê®", <<"á">>>>, <<"ê®", <<"á">>>>, <<"ê®", <<"á">>>>,
   <<"ê®", <<"á">>>>, <<"ê®", <<"á">>>>, <<"ê®", <<"á">>>>, <<"ê®", <<"á">>>>,
   <<"ê®", <<"á">>>>, <<"ê®", <<"á">>>>, <<"ê®", <<"á">>>>, <<"ê®", <<"á">>>>,
   <<"ê® ", <<"á">>>>, <<"ê®¡", <<"á">>>>, <<"ê®¢", <<"á">>>>, <<"ê®£", <<"á">>>>,
   <<"ê®¤", <<"á">>>>, <<"ê®¥", <<"á">>>>, <<"ê®¦", <<"á">>>>, <<"ê®§", <<"á">>>>,
   <<"ê®¨", <<"á">>>>, <<"ê®©", <<"á">>>>, <<"ê®ª", <<"á">>>>, <<"ê®«", <<"á">>>>,
   <<"ê®¬", <<"á">>>>, <<"ê®­", <<"á">>>>, <<"ê®®", <<"á">>>>, <<"ê®¯", <<"á">>>>,
   <<"ê®°", <<"á ">>>>, <<"ê®±", <<"á¡">>>>, <<"ê®²", <<"á¢">>>>, <<"ê®³", <<"á£">>>>,
   <<"ê®´", <<"á¤">>>>, <<"ê®µ", <<"á¥">>>>, <<"ê®¶", <<"á¦">>>>, <<"ê®·", <<"á§">>>>,
   <<"ê®¸", <<"á¨">>>>, <<"ê®¹", <<"á©">>>>, <<"ê®º", <<"áª">>>>, <<"ê®»", <<"á«">>>>,
   <<"ê®¼", <<"á¬">>>>, <<"ê®½", <<"á­">>>>, <<"ê®¾", <<"á®">>>>, <<"ê®¿", <<"á¯">>>>,
   <<"ï¬", <<"F", "f">>>>, <<"ï¬", <<"F", "i">>>>, <<"ï¬", <<"F", "l">>>>,
   <<"ï¬", <<"F", "f", "i">>>>, <<"ï¬", <<"F", "f", "l">>>>, <<"ï¬", <<"S", "t">>>>,
   <<"ï¬", <<"S", "t">>>>, <<"ï¬", <<"Õ", "Õ¶">>>>, <<"ï¬", <<"Õ", "Õ¥">>>>,
   <<"ï¬", <<"Õ", "Õ«">>>>, <<"ï¬", <<"Õ", "Õ¶">>>>, <<"ï¬", <<"Õ", "Õ­">>>>,
   <<"ï½", <<"ï¼¡">>>>, <<"ï½", <<"ï¼¢">>>>, <<"ï½", <<"ï¼£">>>>, <<"ï½", <<"ï¼¤">>>>,
   <<"ï½", <<"ï¼¥">>>>, <<"ï½", <<"ï¼¦">>>>, <<"ï½", <<"ï¼§">>>>, <<"ï½", <<"ï¼¨">>>>,
   <<"ï½", <<"ï¼©">>>>, <<"ï½", <<"ï¼ª">>>>, <<"ï½", <<"ï¼«">>>>, <<"ï½", <<"ï¼¬">>>>,
   <<"ï½", <<"ï¼­">>>>, <<"ï½", <<"ï¼®">>>>, <<"ï½", <<"ï¼¯">>>>, <<"ï½", <<"ï¼°">>>>,
   <<"ï½", <<"ï¼±">>>>, <<"ï½", <<"ï¼²">>>>, <<"ï½", <<"ï¼³">>>>, <<"ï½", <<"ï¼´">>>>,
   <<"ï½", <<"ï¼µ">>>>, <<"ï½", <<"ï¼¶">>>>, <<"ï½", <<"ï¼·">>>>, <<"ï½", <<"ï¼¸">>>>,
   <<"ï½", <<"ï¼¹">>>>, <<"ï½", <<"ï¼º">>>>, <<"ð¨", <<"ð">>>>, <<"ð©", <<"ð">>>>,
   <<"ðª", <<"ð">>>>, <<"ð«", <<"ð">>>>, <<"ð¬", <<"ð">>>>,
   <<"ð­", <<"ð">>>>, <<"ð®", <<"ð">>>>, <<"ð¯", <<"ð">>>>,
   <<"ð°", <<"ð">>>>, <<"ð±", <<"ð">>>>, <<"ð²", <<"ð">>>>,
   <<"ð³", <<"ð">>>>, <<"ð´", <<"ð">>>>, <<"ðµ", <<"ð">>>>,
   <<"ð¶", <<"ð">>>>, <<"ð·", <<"ð">>>>, <<"ð¸", <<"ð">>>>,
   <<"ð¹", <<"ð">>>>, <<"ðº", <<"ð">>>>, <<"ð»", <<"ð">>>>,
   <<"ð¼", <<"ð">>>>, <<"ð½", <<"ð">>>>, <<"ð¾", <<"ð">>>>,
   <<"ð¿", <<"ð">>>>, <<"ð", <<"ð">>>>, <<"ð", <<"ð">>>>,
   <<"ð", <<"ð">>>>, <<"ð", <<"ð">>>>, <<"ð", <<"ð">>>>,
   <<"ð", <<"ð">>>>, <<"ð", <<"ð">>>>, <<"ð", <<"ð">>>>,
   <<"ð", <<"ð ">>>>, <<"ð", <<"ð¡">>>>, <<"ð", <<"ð¢">>>>,
   <<"ð", <<"ð£">>>>, <<"ð", <<"ð¤">>>>, <<"ð", <<"ð¥">>>>,
   <<"ð", <<"ð¦">>>>, <<"ð", <<"ð§">>>>, <<"ð", <<"ð°">>>>,
   <<"ð", <<"ð±">>>>, <<"ð", <<"ð²">>>>, <<"ð", <<"ð³">>>>,
   <<"ð", <<"ð´">>>>, <<"ð", <<"ðµ">>>>, <<"ð", <<"ð¶">>>>,
   <<"ð", <<"ð·">>>>, <<"ð ", <<"ð¸">>>>, <<"ð¡", <<"ð¹">>>>,
   <<"ð¢", <<"ðº">>>>, <<"ð£", <<"ð»">>>>, <<"ð¤", <<"ð¼">>>>,
   <<"ð¥", <<"ð½">>>>, <<"ð¦", <<"ð¾">>>>, <<"ð§", <<"ð¿">>>>,
   <<"ð¨", <<"ð">>>>, <<"ð©", <<"ð">>>>, <<"ðª", <<"ð">>>>,
   <<"ð«", <<"ð">>>>, <<"ð¬", <<"ð">>>>, <<"ð­", <<"ð">>>>,
   <<"ð®", <<"ð">>>>, <<"ð¯", <<"ð">>>>, <<"ð°", <<"ð">>>>,
   <<"ð±", <<"ð">>>>, <<"ð²", <<"ð">>>>, <<"ð³", <<"ð">>>>,
   <<"ð´", <<"ð">>>>, <<"ðµ", <<"ð">>>>, <<"ð¶", <<"ð">>>>,
   <<"ð·", <<"ð">>>>, <<"ð¸", <<"ð">>>>, <<"ð¹", <<"ð">>>>,
   <<"ðº", <<"ð">>>>, <<"ð»", <<"ð">>>>, <<"ð", <<"ð°">>>>,
   <<"ð", <<"ð±">>>>, <<"ð", <<"ð²">>>>, <<"ð", <<"ð³">>>>,
   <<"ð", <<"ð´">>>>, <<"ð", <<"ðµ">>>>, <<"ð", <<"ð¶">>>>,
   <<"ð", <<"ð·">>>>, <<"ð", <<"ð¸">>>>, <<"ð ", <<"ð¹">>>>,
   <<"ð¡", <<"ðº">>>>, <<"ð£", <<"ð¼">>>>, <<"ð¤", <<"ð½">>>>,
   <<"ð¥", <<"ð¾">>>>, <<"ð¦", <<"ð¿">>>>, <<"ð§", <<"ð">>>>,
   <<"ð¨", <<"ð">>>>, <<"ð©", <<"ð">>>>, <<"ðª", <<"ð">>>>,
   <<"ð«", <<"ð">>>>, <<"ð¬", <<"ð">>>>, <<"ð­", <<"ð">>>>,
   <<"ð®", <<"ð">>>>, <<"ð¯", <<"ð">>>>, <<"ð°", <<"ð">>>>,
   <<"ð±", <<"ð">>>>, <<"ð³", <<"ð">>>>, <<"ð´", <<"ð">>>>,
   <<"ðµ", <<"ð">>>>, <<"ð¶", <<"ð">>>>, <<"ð·", <<"ð">>>>,
   <<"ð¸", <<"ð">>>>, <<"ð¹", <<"ð">>>>, <<"ð»", <<"ð">>>>,
   <<"ð¼", <<"ð">>>>, <<"ð³", <<"ð²">>>>, <<"ð³", <<"ð²">>>>,
   <<"ð³", <<"ð²">>>>, <<"ð³", <<"ð²">>>>, <<"ð³", <<"ð²">>>>,
   <<"ð³", <<"ð²">>>>, <<"ð³", <<"ð²">>>>, <<"ð³", <<"ð²">>>>,
   <<"ð³", <<"ð²">>>>, <<"ð³", <<"ð²">>>>, <<"ð³", <<"ð²">>>>,
   <<"ð³", <<"ð²">>>>, <<"ð³", <<"ð²">>>>, <<"ð³", <<"ð²">>>>,
   <<"ð³", <<"ð²">>>>, <<"ð³", <<"ð²">>>>, <<"ð³", <<"ð²">>>>,
   <<"ð³", <<"ð²">>>>, <<"ð³", <<"ð²">>>>, <<"ð³", <<"ð²">>>>,
   <<"ð³", <<"ð²">>>>, <<"ð³", <<"ð²">>>>, <<"ð³", <<"ð²">>>>,
   <<"ð³", <<"ð²">>>>, <<"ð³", <<"ð²">>>>, <<"ð³", <<"ð²">>>>,
   <<"ð³", <<"ð²">>>>, <<"ð³", <<"ð²">>>>, <<"ð³", <<"ð²">>>>,
   <<"ð³", <<"ð²">>>>, <<"ð³", <<"ð²">>>>, <<"ð³", <<"ð²">>>>,
   <<"ð³ ", <<"ð² ">>>>, <<"ð³¡", <<"ð²¡">>>>, <<"ð³¢", <<"ð²¢">>>>,
   <<"ð³£", <<"ð²£">>>>, <<"ð³¤", <<"ð²¤">>>>, <<"ð³¥", <<"ð²¥">>>>,
   <<"ð³¦", <<"ð²¦">>>>, <<"ð³§", <<"ð²§">>>>, <<"ð³¨", <<"ð²¨">>>>,
   <<"ð³©", <<"ð²©">>>>, <<"ð³ª", <<"ð²ª">>>>, <<"ð³«", <<"ð²«">>>>,
   <<"ð³¬", <<"ð²¬">>>>, <<"ð³­", <<"ð²­">>>>, <<"ð³®", <<"ð²®">>>>,
   <<"ð³¯", <<"ð²¯">>>>, <<"ð³°", <<"ð²°">>>>, <<"ð³±", <<"ð²±">>>>,
   <<"ð³²", <<"ð²²">>>>, <<"ð£", <<"ð¢ ">>>>, <<"ð£", <<"ð¢¡">>>>,
   <<"ð£", <<"ð¢¢">>>>, <<"ð£", <<"ð¢£">>>>, <<"ð£", <<"ð¢¤">>>>,
   <<"ð£", <<"ð¢¥">>>>, <<"ð£", <<"ð¢¦">>>>, <<"ð£", <<"ð¢§">>>>,
   <<"ð£", <<"ð¢¨">>>>, <<"ð£", <<"ð¢©">>>>, <<"ð£", <<"ð¢ª">>>>,
   <<"ð£", <<"ð¢«">>>>, <<"ð£", <<"ð¢¬">>>>, <<"ð£", <<"ð¢­">>>>,
   <<"ð£", <<"ð¢®">>>>, <<"ð£", <<"ð¢¯">>>>, <<"ð£", <<"ð¢°">>>>,
   <<"ð£", <<"ð¢±">>>>, <<"ð£", <<"ð¢²">>>>, <<"ð£", <<"ð¢³">>>>,
   <<"ð£", <<"ð¢´">>>>, <<"ð£", <<"ð¢µ">>>>, <<"ð£", <<"ð¢¶">>>>,
   <<"ð£", <<"ð¢·">>>>, <<"ð£", <<"ð¢¸">>>>, <<"ð£", <<"ð¢¹">>>>,
   <<"ð£", <<"ð¢º">>>>, <<"ð£", <<"ð¢»">>>>, <<"ð£", <<"ð¢¼">>>>,
   <<"ð£", <<"ð¢½">>>>, <<"ð£", <<"ð¢¾">>>>, <<"ð£", <<"ð¢¿">>>>,
   <<"ð¹ ", <<"ð¹">>>>, <<"ð¹¡", <<"ð¹">>>>, <<"ð¹¢", <<"ð¹">>>>,
   <<"ð¹£", <<"ð¹">>>>, <<"ð¹¤", <<"ð¹">>>>, <<"ð¹¥", <<"ð¹">>>>,
   <<"ð¹¦", <<"ð¹">>>>, <<"ð¹§", <<"ð¹">>>>, <<"ð¹¨", <<"ð¹">>>>,
   <<"ð¹©", <<"ð¹">>>>, <<"ð¹ª", <<"ð¹">>>>, <<"ð¹«", <<"ð¹">>>>,
   <<"ð¹¬", <<"ð¹">>>>, <<"ð¹­", <<"ð¹">>>>, <<"ð¹®", <<"ð¹">>>>,
   <<"ð¹¯", <<"ð¹">>>>, <<"ð¹°", <<"ð¹">>>>, <<"ð¹±", <<"ð¹">>>>,
   <<"ð¹²", <<"ð¹">>>>, <<"ð¹³", <<"ð¹">>>>, <<"ð¹´", <<"ð¹">>>>,
   <<"ð¹µ", <<"ð¹">>>>, <<"ð¹¶", <<"ð¹">>>>, <<"ð¹·", <<"ð¹">>>>,
   <<"ð¹¸", <<"ð¹">>>>, <<"ð¹¹", <<"ð¹">>>>, <<"ð¹º", <<"ð¹">>>>,
   <<"ð¹»", <<"ð¹">>>>, <<"ð¹¼", <<"ð¹">>>>, <<"ð¹½", <<"ð¹">>>>,
   <<"ð¹¾", <<"ð¹">>>>, <<"ð¹¿", <<"ð¹">>>>, <<"ð¤¢", <<"ð¤">>>>,
   <<"ð¤£", <<"ð¤">>>>, <<"ð¤¤", <<"ð¤">>>>, <<"ð¤¥", <<"ð¤">>>>,
   <<"ð¤¦", <<"ð¤">>>>, <<"ð¤§", <<"ð¤">>>>, <<"ð¤¨", <<"ð¤">>>>,
   <<"ð¤©", <<"ð¤">>>>, <<"ð¤ª", <<"ð¤">>>>, <<"ð¤«", <<"ð¤">>>>,
   <<"ð¤¬", <<"ð¤">>>>, <<"ð¤­", <<"ð¤">>>>, <<"ð¤®", <<"ð¤">>>>,
   <<"ð¤¯", <<"ð¤">>>>, <<"ð¤°", <<"ð¤">>>>, <<"ð¤±", <<"ð¤">>>>,
   <<"ð¤²", <<"ð¤">>>>, <<"ð¤³", <<"ð¤">>>>, <<"ð¤´", <<"ð¤">>>>,
   <<"ð¤µ", <<"ð¤">>>>, <<"ð¤¶", <<"ð¤">>>>, <<"ð¤·", <<"ð¤">>>>,
   <<"ð¤¸", <<"ð¤">>>>, <<"ð¤¹", <<"ð¤">>>>, <<"ð¤º", <<"ð¤">>>>,
   <<"ð¤»", <<"ð¤">>>>, <<"ð¤¼", <<"ð¤">>>>, <<"ð¤½", <<"ð¤">>>>,
   <<"ð¤¾", <<"ð¤">>>>, <<"ð¤¿", <<"ð¤">>>>, <<"ð¥", <<"ð¤">>>>,
   <<"ð¥", <<"ð¤">>>>, <<"ð¥", <<"ð¤ ">>>>, <<"ð¥", <<"ð¤¡">>>>
  }

\* The cased characters outside ASCII
CasedOther ==
  {
   "Âª", "Âµ", "Âº", "Ã", "Ã", "Ã", "Ã", "Ã", "Ã", "Ã", "Ã", "Ã", "Ã", "Ã", "Ã",
   "Ã", "Ã", "Ã", "Ã", "Ã", "Ã", "Ã", "Ã", "Ã", "Ã", "Ã", "Ã", "Ã", "Ã", "Ã",
   "Ã", "Ã", "Ã", "Ã", "Ã ", "Ã¡", "Ã¢", "Ã£", "Ã¤", "Ã¥", "Ã¦", "Ã§", "Ã¨", "Ã©", "Ãª",
   "Ã«", "Ã¬", "Ã­", "Ã®", "Ã¯", "Ã°", "Ã±", "Ã²", "Ã³", "Ã´", "Ãµ", "Ã¶", "Ã¸", "Ã¹", "Ãº",
   "Ã»", "Ã¼", "Ã½", "Ã¾", "Ã¿", "Ä", "Ä", "Ä", "Ä", "Ä", "Ä", "Ä", "Ä", "Ä", "Ä",
   "Ä", "Ä", "Ä", "Ä", "Ä", "Ä", "Ä", "Ä", "Ä", "Ä", "Ä", "Ä", "Ä", "Ä", "Ä",
   "Ä", "Ä", "Ä", "Ä", "Ä", "Ä", "Ä", "Ä ", "Ä¡", "Ä¢", "Ä£", "Ä¤", "Ä¥", "Ä¦", "Ä§",
   "Ä¨", "Ä©", "Äª", "Ä«", "Ä¬", "Ä­", "Ä®", "Ä¯", "Ä°", "Ä±", "Ä²", "Ä³", "Ä´", "Äµ", "Ä¶",
   "Ä·", "Ä¸", "Ä¹", "Äº", "Ä»", "Ä¼", "Ä½", "Ä¾", "Ä¿", "Å", "Å", "Å", "Å", "Å", "Å",
   "Å", "Å", "Å", "Å", "Å", "Å", "Å", "Å", "Å", "Å", "Å", "Å", "Å", "Å", "Å",
   "Å", "Å", "Å", "Å", "Å", "Å", "Å", "Å", "Å", "Å", "Å", "Å ", "Å¡", "Å¢", "Å£",
   "Å¤", "Å¥", "Å¦", "Å§", "Å¨", "Å©", "Åª", "Å«", "Å¬", "Å­", "Å®", "Å¯", "Å°", "Å±", "Å²",
   "Å³", "Å´", "Åµ", "Å¶", "Å·", "Å¸", "Å¹", "Åº", "Å»", "Å¼", "Å½", "Å¾", "Å¿", "Æ", "Æ",
   "Æ", "Æ", "Æ", "Æ", "Æ", "Æ", "Æ", "Æ", "Æ", "Æ", "Æ", "Æ", "Æ", "Æ", "Æ",
   "Æ", "Æ", "Æ", "Æ", "Æ", "Æ", "Æ", "Æ", "Æ", "Æ", "Æ", "Æ", "Æ", "Æ", "Æ",
   "Æ ", "Æ¡", "Æ¢", "Æ£", "Æ¤", "Æ¥", "Æ¦", "Æ§", "Æ¨", "Æ©", "Æª", "Æ«", "Æ¬", "Æ­", "Æ®",
   "Æ¯", "Æ°", "Æ±", "Æ²", "Æ³", "Æ´", "Æµ", "Æ¶", "Æ·", "Æ¸", "Æ¹", "Æº", "Æ¼", "Æ½", "Æ¾",
   "Æ¿", "Ç", "Ç", "Ç", "Ç", "Ç", "Ç", "Ç", "Ç", "Ç", "Ç", "Ç", "Ç", "Ç", "Ç",
   "Ç", "Ç", "Ç", "Ç", "Ç", "Ç", "Ç", "Ç", "Ç", "Ç", "Ç", "Ç", "Ç", "Ç", "Ç ",
   "Ç¡", "Ç¢", "Ç£", "Ç¤", "Ç¥", "Ç¦", "Ç§", "Ç¨", "Ç©", "Çª", "Ç«", "Ç¬", "Ç­", "Ç®", "Ç¯",
   "Ç°", "Ç±", "Ç²", "Ç³", "Ç´", "Çµ", "Ç¶", "Ç·", "Ç¸", "Ç¹", "Çº", "Ç»", "Ç¼", "Ç½", "Ç¾",
   "Ç¿", "È", "È", "È", "È", "È", "È", "È", "È", "È", "È", "È", "È", "È", "È",
   "È", "È", "È", "È", "È", "È", "È", "È", "È", "È", "È", "È", "È", "È", "È",
   "È", "È", "È", "È ", "È¡", "È¢", "È£", "È¤", "È¥", "È¦", "È§", "È¨", "È©", "Èª", "È«",
   "È¬", "È­", "È®", "È¯", "È°", "È±", "È²", "È³", "È´", "Èµ", "È¶", "È·", "È¸", "È¹", "Èº",
   "È»", "È¼", "È½", "È¾", "È¿", "É", "É", "É", "É", "É", "É", "É", "É", "É", "É",
   "É", "É", "É", "É", "É", "É", "É", "É", "É", "É", "É", "É", "É", "É", "É",
   "É", "É", "É", "É", "É", "É", "É", "É ", "É¡", "É¢", "É£", "É¤", "É¥", "É¦", "É§",
   "É¨", "É©", "Éª", "É«", "É¬", "É­", "É®", "É¯", "É°", "É±", "É²", "É³", "É´", "Éµ", "É¶",
   "É·", "É¸", "É¹", "Éº", "É»", "É¼", "É½", "É¾", "É¿", "Ê", "Ê", "Ê", "Ê", "Ê", "Ê",
   "Ê", "Ê", "Ê", "Ê", "Ê", "Ê", "Ê", "Ê", "Ê", "Ê", "Ê", "Ê", "Ê", "Ê", "Ê",
   "Ê", "Ê", "Ê", "Ê", "Ê", "Ê", "Ê", "Ê", "Ê", "Ê", "Ê ", "Ê¡", "Ê¢", "Ê£", "Ê¤",
   "Ê¥", "Ê¦", "Ê§", "Ê¨", "Ê©", "Êª", "Ê«", "Ê¬", "Ê­", "Ê®", "Ê¯", "Ê°", "Ê±", "Ê²", "Ê³",
   "Ê´", "Êµ", "Ê¶", "Ê·", "Ê¸", "Ë", "Ë", "Ë ", "Ë¡", "Ë¢", "Ë£", "Ë¤", "Í", "Í°", "Í±",
   "Í²", "Í³", "Í¶", "Í·", "Íº", "Í»", "Í¼", "Í½", "Í¿", "Î", "Î", "Î", "Î", "Î", "Î",
   "Î", "Î", "Î", "Î", "Î", "Î", "Î", "Î", "Î", "Î", "Î", "Î", "Î", "Î", "Î",
   "Î", "Î", "Î ", "Î¡", "Î£", "Î¤", "Î¥", "Î¦", "Î§", "Î¨", "Î©", "Îª", "Î«", "Î¬", "Î­",
   "Î®", "Î¯", "Î°", "Î±", "Î²", "Î³", "Î´", "Îµ", "Î¶", "Î·", "Î¸", "Î¹", "Îº", "Î»", "Î¼",
   "Î½", "Î¾", "Î¿", "Ï", "Ï", "Ï", "Ï", "Ï", "Ï", "Ï", "Ï", "Ï", "Ï", "Ï", "Ï",
   "Ï", "Ï", "Ï", "Ï", "Ï", "Ï", "Ï", "Ï", "Ï", "Ï", "Ï", "Ï", "Ï", "Ï", "Ï",
   "Ï", "Ï", "Ï", "Ï", "Ï", "Ï ", "Ï¡", "Ï¢", "Ï£", "Ï¤", "Ï¥", "Ï¦", "Ï§", "Ï¨", "Ï©",
   "Ïª", "Ï«", "Ï¬", "Ï­", "Ï®", "Ï¯", "Ï°", "Ï±", "Ï²", "Ï³", "Ï´", "Ïµ", "Ï·", "Ï¸", "Ï¹",
   "Ïº", "Ï»", "Ï¼", "Ï½", "Ï¾", "Ï¿", "Ð", "Ð", "Ð", "Ð", "Ð", "Ð", "Ð", "Ð", "Ð",
   "Ð", "Ð", "Ð", "Ð", "Ð", "Ð", "Ð", "Ð", "Ð", "Ð", "Ð", "Ð", "Ð", "Ð", "Ð",
   "Ð", "Ð", "Ð", "Ð", "Ð", "Ð", "Ð", "Ð", "Ð ", "Ð¡", "Ð¢", "Ð£", "Ð¤", "Ð¥", "Ð¦",
   "Ð§", "Ð¨", "Ð©", "Ðª", "Ð«", "Ð¬", "Ð­", "Ð®", "Ð¯", "Ð°", "Ð±", "Ð²", "Ð³", "Ð´", "Ðµ",
   "Ð¶", "Ð·", "Ð¸", "Ð¹", "Ðº", "Ð»", "Ð¼", "Ð½", "Ð¾", "Ð¿", "Ñ", "Ñ", "Ñ", "Ñ", "Ñ",
   "Ñ", "Ñ", "Ñ", "Ñ", "Ñ", "Ñ", "Ñ", "Ñ", "Ñ", "Ñ", "Ñ", "Ñ", "Ñ", "Ñ", "Ñ",
   "Ñ", "Ñ", "Ñ", "Ñ", "Ñ", "Ñ", "Ñ", "Ñ", "Ñ", "Ñ", "Ñ", "Ñ", "Ñ ", "Ñ¡", "Ñ¢",
   "Ñ£", "Ñ¤", "Ñ¥", "Ñ¦", "Ñ§", "Ñ¨", "Ñ©", "Ñª", "Ñ«", "Ñ¬", "Ñ­", "Ñ®", "Ñ¯", "Ñ°", "Ñ±",
   "Ñ²", "Ñ³", "Ñ´", "Ñµ", "Ñ¶", "Ñ·", "Ñ¸", "Ñ¹", "Ñº", "Ñ»", "Ñ¼", "Ñ½", "Ñ¾", "Ñ¿", "Ò",
   "Ò", "Ò", "Ò", "Ò", "Ò", "Ò", "Ò", "Ò", "Ò", "Ò", "Ò", "Ò", "Ò", "Ò", "Ò",
   "Ò", "Ò", "Ò", "Ò", "Ò", "Ò", "Ò", "Ò", "Ò ", "Ò¡", "Ò¢", "Ò£", "Ò¤", "Ò¥", "Ò¦",
   "Ò§", "Ò¨", "Ò©", "Òª", "Ò«", "Ò¬", "Ò­", "Ò®", "Ò¯", "Ò°", "Ò±", "Ò²", "Ò³", "Ò´", "Òµ",
   "Ò¶", "Ò·", "Ò¸", "Ò¹", "Òº", "Ò»", "Ò¼", "Ò½", "Ò¾", "Ò¿", "Ó", "Ó", "Ó", "Ó", "Ó",
   "Ó", "Ó", "Ó", "Ó", "Ó", "Ó", "Ó", "Ó", "Ó", "Ó", "Ó", "Ó", "Ó", "Ó", "Ó",
   "Ó", "Ó", "Ó", "Ó", "Ó", "Ó", "Ó", "Ó", "Ó", "Ó", "Ó", "Ó", "Ó ", "Ó¡", "Ó¢",
   "Ó£", "Ó¤", "Ó¥", "Ó¦", "Ó§", "Ó¨", "Ó©", "Óª", "Ó«", "Ó¬", "Ó­", "Ó®", "Ó¯", "Ó°", "Ó±",
   "Ó²", "Ó³", "Ó´", "Óµ", "Ó¶", "Ó·", "Ó¸", "Ó¹", "Óº", "Ó»", "Ó¼", "Ó½", "Ó¾", "Ó¿", "Ô",
   "Ô", "Ô", "Ô", "Ô", "Ô", "Ô", "Ô", "Ô", "Ô", "Ô", "Ô", "Ô", "Ô", "Ô", "Ô",
   "Ô", "Ô", "Ô", "Ô", "Ô", "Ô", "Ô", "Ô", "Ô", "Ô", "Ô", "Ô", "Ô", "Ô", "Ô",
   "Ô", "Ô ", "Ô¡", "Ô¢", "Ô£", "Ô¤", "Ô¥", "Ô¦", "Ô§", "Ô¨", "Ô©", "Ôª", "Ô«", "Ô¬", "Ô­",
   "Ô®", "Ô¯", "Ô±", "Ô²", "Ô³", "Ô´", "Ôµ", "Ô¶", "Ô·", "Ô¸", "Ô¹", "Ôº", "Ô»", "Ô¼", "Ô½",
   "Ô¾", "Ô¿", "Õ", "Õ", "Õ", "Õ", "Õ", "Õ", "Õ", "Õ", "Õ", "Õ", "Õ", "Õ", "Õ",
   "Õ", "Õ", "Õ", "Õ", "Õ", "Õ", "Õ", "Õ", "Õ", "Õ", "Õ ", "Õ¡", "Õ¢", "Õ£", "Õ¤",
   "Õ¥", "Õ¦", "Õ§", "Õ¨", "Õ©", "Õª", "Õ«", "Õ¬", "Õ­", "Õ®", "Õ¯", "Õ°", "Õ±", "Õ²", "Õ³",
   "Õ´", "Õµ", "Õ¶", "Õ·", "Õ¸", "Õ¹", "Õº", "Õ»", "Õ¼", "Õ½", "Õ¾", "Õ¿", "Ö", "Ö", "Ö",
   "Ö", "Ö", "Ö", "Ö", "Ö", "Ö", "á ", "á¡", "á¢", "á£", "á¤", "á¥", "á¦", "á§",
   "á¨", "á©", "áª", "á«", "á¬", "á­", "á®", "á¯", "á°", "á±", "á²", "á³", "á´",
   "áµ", "á¶", "á·", "á¸", "á¹", "áº", "á»", "á¼", "á½", "á¾", "á¿", "á", "á",
   "á", "á", "á", "á", "á", "á", "á", "á", "á", "á", "á", "á", "á",
   "á", "á", "á", "á", "á", "á", "á", "á", "á", "á ", "á¡", "á¢", "á£",
   "á¤", "á¥", "á¦", "á§", "á¨", "á©", "áª", "á«", "á¬", "á­", "á®", "á¯", "á°",
   "á±", "á²", "á³", "á´", "áµ", "á¶", "á·", "á¸", "á¹", "áº", "á½", "á¾", "á¿",
   "á ", "á¡", "á¢", "á£", "á¤", "á¥", "á¦", "á§", "á¨", "á©", "áª", "á«", "á¬",
   "á­", "á®", "á¯", "á°", "á±", "á²", "á³", "á´", "áµ", "á¶", "á·", "á¸", "á¹",
   "áº", "á»", "á¼", "á½", "á¾", "á¿", "á", "á", "á", "á", "á", "á", "á",
   "á", "á", "á", "á", "á", "á", "á", "á", "á", "á", "á", "á", "á",
   "á", "á", "á", "á", "á", "á", "á", "á", "á", "á", "á", "á", "á ",
   "á¡", "á¢", "á£", "á¤", "á¥", "á¦", "á§", "á¨", "á©", "áª", "á«", "á¬", "á­",
   "á®", "á¯", "á°", "á±", "á²", "á³", "á´", "áµ", "á¸", "á¹", "áº", "á»", "á¼",
   "á½", "á²", "á²", "á²", "á²", "á²", "á²", "á²", "á²", "á²", "á²", "á²", "á²",
   "á²", "á²", "á²", "á²", "á²", "á²", "á²", "á²", "á²", "á²", "á²", "á²", "á²",
   "á² ", "á²¡", "á²¢", "á²£", "á²¤", "á²¥", "á²¦", "á²§", "á²¨", "á²©", "á²ª", "á²«", "á²¬",
   "á²­", "á²®", "á²¯", "á²°", "á²±", "á²²", "á²³", "á²´", "á²µ", "á²¶", "á²·", "á²¸", "á²¹",
   "á²º", "á²½", "á²¾", "á²¿", "á´", "á´", "á´", "á´", "á´", "á´", "á´", "á´", "á´",
   "á´", "á´", "á´", "á´", "á´", "á´", "á´", "á´", "á´", "á´", "á´", "á´", "á´",
   "á´", "á´", "á´", "á´", "á´", "á´", "á´", "á´", "á´", "á´", "á´ ", "á´¡", "á´¢",
   "á´£", "á´¤", "á´¥", "á´¦", "á´§", "á´¨", "á´©", "á´ª", "á´«", "á´¬", "á´­", "á´®", "á´¯",
   "á´°", "á´±", "á´²", "á´³", "á´´", "á´µ", "á´¶", "á´·", "á´¸", "á´¹", "á´º", "á´»", "á´¼",
   "á´½", "á´¾", "á´¿", "áµ", "áµ", "áµ", "áµ", "áµ", "áµ", "áµ", "áµ", "áµ", "áµ",
   "áµ", "áµ", "áµ", "áµ", "áµ", "áµ", "áµ", "áµ", "áµ", "áµ", "áµ", "áµ", "áµ",
   "áµ", "áµ", "áµ", "áµ", "áµ", "áµ", "áµ", "áµ", "áµ", "áµ ", "áµ¡", "áµ¢", "áµ£",
   "áµ¤", "áµ¥", "áµ¦", "áµ§", "áµ¨", "áµ©", "áµª", "áµ«", "áµ¬", "áµ­", "áµ®", "áµ¯", "áµ°",
   "áµ±", "áµ²", "áµ³", "áµ´", "áµµ", "áµ¶", "áµ·", "áµ¸", "áµ¹", "áµº", "áµ»", "áµ¼", "áµ½",
   "áµ¾", "áµ¿", "á¶", "á¶", "á¶", "á¶", "á¶", "á¶", "á¶", "á¶", "á¶", "á¶", "á¶",
   "á¶", "á¶", "á¶", "á¶", "á¶", "á¶", "á¶", "á¶", "á¶", "á¶", "á¶", "á¶", "á¶",
   "á¶", "á¶", "á¶", "á¶", "á¶", "á¶", "á¶", "á¶", "á¶ ", "á¶¡", "á¶¢", "á¶£", "á¶¤",
   "á¶¥", "á¶¦", "á¶§", "á¶¨", "á¶©", "á¶ª", "á¶«", "á¶¬", "á¶­", "á¶®", "á¶¯", "á¶°", "á¶±",
   "á¶²", "á¶³", "á¶´", "á¶µ", "á¶¶", "á¶·", "á¶¸", "á¶¹", "á¶º", "á¶»", "á¶¼", "á¶½", "á¶¾",
   "á¶¿", "á¸", "á¸", "á¸", "á¸", "á¸", "á¸", "á¸", "á¸", "á¸", "á¸", "á¸", "á¸",
   "á¸", "á¸", "á¸", "á¸", "á¸", "á¸", "á¸", "á¸", "á¸", "á¸", "á¸", "á¸", "á¸",
   "á¸", "á¸", "á¸", "á¸", "á¸", "á¸", "á¸", "á¸ ", "á¸¡", "á¸¢", "á¸£", "á¸¤", "á¸¥",
   "á¸¦", "á¸§", "á¸¨", "á¸©", "á¸ª", "á¸«", "á¸¬", "á¸­", "á¸®", "á¸¯", "á¸°", "á¸±", "á¸²",
   "á¸³", "á¸´", "á¸µ", "á¸¶", "á¸·", "á¸¸", "á¸¹", "á¸º", "á¸»", "á¸¼", "á¸½", "á¸¾", "á¸¿",
   "á¹", "á¹", "á¹", "á¹", "á¹", "á¹", "á¹", "á¹", "á¹", "á¹", "á¹", "á¹", "á¹",
   "á¹", "á¹", "á¹", "á¹", "á¹", "á¹", "á¹", "á¹", "á¹", "á¹", "á¹", "á¹", "á¹",
   "á¹", "á¹", "á¹", "á¹", "á¹", "á¹", "á¹ ", "á¹¡", "á¹¢", "á¹£", "á¹¤", "á¹¥", "á¹¦",
   "á¹§", "á¹¨", "á¹©", "á¹ª", "á¹«", "á¹¬", "á¹­", "á¹®", "á¹¯", "á¹°", "á¹±", "á¹²", "á¹³",
   "á¹´", "á¹µ", "á¹¶", "á¹·", "á¹¸", "á¹¹", "á¹º", "á¹»", "á¹¼", "á¹½", "á¹¾", "á¹¿", "áº",
   "áº", "áº", "áº", "áº", "áº", "áº", "áº", "áº", "áº", "áº", "áº", "áº", "áº",
   "áº", "áº", "áº", "áº", "áº", "áº", "áº", "áº", "áº", "áº", "áº", "áº", "áº",
   "áº", "áº", "áº", "áº", "áº", "áº ", "áº¡", "áº¢", "áº£", "áº¤", "áº¥", "áº¦", "áº§",
   "áº¨", "áº©", "áºª", "áº«", "áº¬", "áº­", "áº®", "áº¯", "áº°", "áº±", "áº²", "áº³", "áº´",
   "áºµ", "áº¶", "áº·", "áº¸", "áº¹", "áºº", "áº»", "áº¼", "áº½", "áº¾", "áº¿", "á»", "á»",
   "á»", "á»", "á»", "á»", "á»", "á»", "á»", "á»", "á»", "á»", "á»", "á»", "á»",
   "á»", "á»", "á»", "á»", "á»", "á»", "á»", "á»", "á»", "á»", "á»", "á»", "á»",
   "á»", "á»", "á»", "á»", "á» ", "á»¡", "á»¢", "á»£", "á»¤", "á»¥", "á»¦", "á»§", "á»¨",
   "á»©", "á»ª", "á»«", "á»¬", "á»­", "á»®", "á»¯", "á»°", "á»±", "á»²", "á»³", "á»´", "á»µ",
   "á»¶", "á»·", "á»¸", "á»¹", "á»º", "á»»", "á»¼", "á»½", "á»¾", "á»¿", "á¼", "á¼", "á¼",
   "á¼", "á¼", "á¼", "á¼", "á¼", "á¼", "á¼", "á¼", "á¼", "á¼", "á¼", "á¼", "á¼",
   "á¼", "á¼", "á¼", "á¼", "á¼", "á¼", "á¼", "á¼", "á¼", "á¼", "á¼", "á¼", "á¼ ",
   "á¼¡", "á¼¢", "á¼£", "á¼¤", "á¼¥", "á¼¦", "á¼§", "á¼¨", "á¼©", "á¼ª", "á¼«", "á¼¬", "á¼­",
   "á¼®", "á¼¯", "á¼°", "á¼±", "á¼²", "á¼³", "á¼´", "á¼µ", "á¼¶", "á¼·", "á¼¸", "á¼¹", "á¼º",
   "á¼»", "á¼¼", "á¼½", "á¼¾", "á¼¿", "á½", "á½", "á½", "á½", "á½", "á½", "á½", "á½",
   "á½", "á½", "á½", "á½", "á½", "á½", "á½", "á½", "á½", "á½", "á½", "á½", "á½",
   "á½", "á½", "á½", "á½ ", "á½¡", "á½¢", "á½£", "á½¤", "á½¥", "á½¦", "á½§", "á½¨", "á½©",
   "á½ª", "á½«", "á½¬", "á½­", "á½®", "á½¯", "á½°", "á½±", "á½²", "á½³", "á½´", "á½µ", "á½¶",
   "á½·", "á½¸", "á½¹", "á½º", "á½»", "á½¼", "á½½", "á¾", "á¾", "á¾", "á¾", "á¾", "á¾",
   "á¾", "á¾", "á¾", "á¾", "á¾", "á¾", "á¾", "á¾", "á¾", "á¾", "á¾", "á¾", "á¾",
   "á¾", "á¾", "á¾", "á¾", "á¾", "á¾", "á¾", "á¾", "á¾", "á¾", "á¾", "á¾", "á¾",
   "á¾ ", "á¾¡", "á¾¢", "á¾£", "á¾¤", "á¾¥", "á¾¦", "á¾§", "á¾¨", "á¾©", "á¾ª", "á¾«", "á¾¬",
   "á¾­", "á¾®", "á¾¯", "á¾°", "á¾±", "á¾²", "á¾³", "á¾´", "á¾¶", "á¾·", "á¾¸", "á¾¹", "á¾º",
   "á¾»", "á¾¼", "á¾¾", "á¿", "á¿", "á¿", "á¿", "á¿", "á¿", "á¿", "á¿", "á¿", "á¿",
   "á¿", "á¿", "á¿", "á¿", "á¿", "á¿", "á¿", "á¿", "á¿", "á¿", "á¿ ", "á¿¡", "á¿¢",
   "á¿£", "á¿¤", "á¿¥", "á¿¦", "á¿§", "á¿¨", "á¿©", "á¿ª", "á¿«", "á¿¬", "á¿²", "á¿³", "á¿´",
   "á¿¶", "á¿·", "á¿¸", "á¿¹", "á¿º", "á¿»", "á¿¼", "â±", "â¿", "â", "â", "â", "â",
   "â", "â", "â", "â", "â", "â", "â", "â", "â", "â", "â", "â", "â",
   "â", "â", "â", "â", "â", "â", "â", "â", "â", "â", "â", "â", "â",
   "â", "â¤", "â¦", "â¨", "âª", "â«", "â¬", "â­", "â¯", "â°", "â±", "â²", "â³",
   "â´", "â¹", "â¼", "â½", "â¾", "â¿", "â", "â", "â", "â", "â", "â", "â ",
   "â¡", "â¢", "â£", "â¤", "â¥", "â¦", "â§", "â¨", "â©", "âª", "â«", "â¬", "â­",
   "â®", "â¯", "â°", "â±", "â²", "â³", "â´", "âµ", "â¶", "â·", "â¸", "â¹", "âº",
   "â»", "â¼", "â½", "â¾", "â¿", "â", "â", "â¶", "â·", "â¸", "â¹", "âº", "â»",
   "â¼", "â½", "â¾", "â¿", "â", "â", "â", "â", "â", "â", "â", "â", "â",
   "â", "â", "â", "â", "â", "â", "â", "â", "â", "â", "â", "â", "â",
   "â", "â", "â", "â", "â", "â", "â", "â", "â", "â", "â ", "â¡", "â¢",
   "â£", "â¤", "â¥", "â¦", "â§", "â¨", "â©", "â°", "â°", "â°", "â°", "â°", "â°",
   "â°", "â°", "â°", "â°", "â°", "â°", "â°", "â°", "â°", "â°", "â°", "â°", "â°",
   "â°", "â°", "â°", "â°", "â°", "â°", "â°", "â°", "â°", "â°", "â°", "â°", "â°",
   "â° ", "â°¡", "â°¢", "â°£", "â°¤", "â°¥", "â°¦", "â°§", "â°¨", "â°©", "â°ª", "â°«", "â°¬",
   "â°­", "â°®", "â°¯", "â°°", "â°±", "â°²", "â°³", "â°´", "â°µ", "â°¶", "â°·", "â°¸", "â°¹",
   "â°º", "â°»", "â°¼", "â°½", "â°¾", "â°¿", "â±", "â±", "â±", "â±", "â±", "â±", "â±",
   "â±", "â±", "â±", "â±", "â±", "â±", "â±", "â±", "â±", "â±", "â±", "â±", "â±",
   "â±", "â±", "â±", "â±", "â±", "â±", "â±", "â±", "â±", "â±", "â±", "â±", "â± ",
   "â±¡", "â±¢", "â±£", "â±¤", "â±¥", "â±¦", "â±§", "â±¨", "â±©", "â±ª", "â±«", "â±¬", "â±­",
   "â±®", "â±¯", "â±°", "â±±", "â±²", "â±³", "â±´", "â±µ", "â±¶", "â±·", "â±¸", "â±¹", "â±º",
   "â±»", "â±¼", "â±½", "â±¾", "â±¿", "â²", "â²", "â²", "â²", "â²", "â²", "â²", "â²",
   "â²", "â²", "â²", "â²", "â²", "â²", "â²", "â²", "â²", "â²", "â²", "â²", "â²",
   "â²", "â²", "â²", "â²", "â²", "â²", "â²", "â²", "â²", "â²", "â²", "â² ", "â²¡",
   "â²¢", "â²£", "â²¤", "â²¥", "â²¦", "â²§", "â²¨", "â²©", "â²ª", "â²«", "â²¬", "â²­", "â²®",
   "â²¯", "â²°", "â²±", "â²²", "â²³", "â²´", "â²µ", "â²¶", "â²·", "â²¸", "â²¹", "â²º", "â²»",
   "â²¼", "â²½", "â²¾", "â²¿", "â³", "â³", "â³", "â³", "â³", "â³", "â³", "â³", "â³",
   "â³", "â³", "â³", "â³", "â³", "â³", "â³", "â³", "â³", "â³", "â³", "â³", "â³",
   "â³", "â³", "â³", "â³", "â³", "â³", "â³", "â³", "â³", "â³", "â³ ", "â³¡", "â³¢",
   "â³£", "â³¤", "â³«", "â³¬", "â³­", "â³®", "â³²", "â³³", "â´", "â´", "â´", "â´", "â´",
   "â´", "â´", "â´", "â´", "â´", "â´", "â´", "â´", "â´", "â´", "â´", "â´", "â´",
   "â´", "â´", "â´", "â´", "â´", "â´", "â´", "â´", "â´", "â´", "â´", "â´", "â´",
   "â´", "â´ ", "â´¡", "â´¢", "â´£", "â´¤", "â´¥", "â´§", "â´­", "ê", "ê", "ê", "ê",
   "ê", "ê", "ê", "ê", "ê", "ê", "ê", "ê", "ê", "ê", "ê", "ê", "ê",
   "ê", "ê", "ê", "ê", "ê", "ê", "ê", "ê", "ê", "ê", "ê", "ê", "ê",
   "ê", "ê", "ê ", "ê¡", "ê¢", "ê£", "ê¤", "ê¥", "ê¦", "ê§", "ê¨", "ê©", "êª",
   "ê«", "ê¬", "ê­", "ê", "ê", "ê", "ê", "ê", "ê", "ê", "ê", "ê", "ê",
   "ê", "ê", "ê", "ê", "ê", "ê", "ê", "ê", "ê", "ê", "ê", "ê", "ê",
   "ê", "ê", "ê", "ê", "ê", "ê", "ê", "ê¢", "ê£", "ê¤", "ê¥", "ê¦", "ê§",
   "ê¨", "ê©", "êª", "ê«", "ê¬", "ê­", "ê®", "ê¯", "ê°", "ê±", "ê²", "ê³", "ê´",
   "êµ", "ê¶", "ê·", "ê¸", "ê¹", "êº", "ê»", "ê¼", "ê½", "ê¾", "ê¿", "ê", "ê",
   "ê", "ê", "ê", "ê", "ê", "ê", "ê", "ê", "ê", "ê", "ê", "ê", "ê",
   "ê", "ê", "ê", "ê", "ê", "ê", "ê", "ê", "ê", "ê", "ê", "ê", "ê",
   "ê", "ê", "ê", "ê", "ê ", "ê¡", "ê¢", "ê£", "ê¤", "ê¥", "ê¦", "ê§", "ê¨",
   "ê©", "êª", "ê«", "ê¬", "ê­", "ê®", "ê¯", "ê°", "ê±", "ê²", "ê³", "ê´", "êµ",
   "ê¶", "ê·", "ê¸", "ê¹", "êº", "ê»", "ê¼", "ê½", "ê¾", "ê¿", "ê", "ê", "ê",
   "ê", "ê", "ê", "ê", "ê", "ê", "ê", "ê", "ê", "ê", "ê", "ê", "ê",
   "ê", "ê", "ê", "ê", "ê", "ê", "ê", "ê", "ê", "ê", "ê", "ê", "ê ",
   "ê¡", "ê¢", "ê£", "ê¤", "ê¥", "ê¦", "ê§", "ê¨", "ê©", "êª", "ê«", "ê¬", "ê­",
   "ê®", "ê¯", "ê°", "ê±", "ê²", "ê³", "ê´", "êµ", "ê¶", "ê·", "ê¸", "ê¹", "êº",
   "ê»", "ê¼", "ê½", "ê¾", "ê¿", "ê", "ê", "ê", "ê", "ê", "ê", "ê", "ê",
   "ê", "ê", "ê", "ê", "ê", "ê", "ê", "ê", "ê", "ê", "ê", "êµ", "ê¶",
   "ê¸", "ê¹", "êº", "ê¬°", "ê¬±", "ê¬²", "ê¬³", "ê¬´", "ê¬µ", "ê¬¶", "ê¬·", "ê¬¸", "ê¬¹",
   "ê¬º", "ê¬»", "ê¬¼", "ê¬½", "ê¬¾", "ê¬¿", "ê­", "ê­", "ê­", "ê­", "ê­", "ê­", "ê­",
   "ê­", "ê­", "ê­", "ê­", "ê­", "ê­", "ê­", "ê­", "ê­", "ê­", "ê­", "ê­", "ê­",
   "ê­", "ê­", "ê­", "ê­", "ê­", "ê­", "ê­", "ê­", "ê­", "ê­", "ê­", "ê­ ", "ê­¡",
   "ê­¢", "ê­£", "ê­¤", "ê­¥", "ê­¦", "ê­§", "ê­¨", "ê­°", "ê­±", "ê­²", "ê­³", "ê­´", "ê­µ",
   "ê­¶", "ê­·", "ê­¸", "ê­¹", "ê­º", "ê­»", "ê­¼", "ê­½", "ê­¾", "ê­¿", "ê®", "ê®", "ê®",
   "ê®", "ê®", "ê®", "ê®", "ê®", "ê®", "ê®", "ê®", "ê®", "ê®", "ê®", "ê®", "ê®",
   "ê®", "ê®", "ê®", "ê®", "ê®", "ê®", "ê®", "ê®", "ê®", "ê®", "ê®", "ê®", "ê®",
   "ê®", "ê®", "ê®", "ê® ", "ê®¡", "ê®¢", "ê®£", "ê®¤", "ê®¥", "ê®¦", "ê®§", "ê®¨", "ê®©",
   "ê®ª", "ê®«", "ê®¬", "ê®­", "ê®®", "ê®¯", "ê®°", "ê®±", "ê®²", "ê®³", "ê®´", "ê®µ", "ê®¶",
   "ê®·", "ê®¸", "ê®¹", "ê®º", "ê®»", "ê®¼", "ê®½", "ê®¾", "ê®¿", "ï¬", "ï¬", "ï¬", "ï¬",
   "ï¬", "ï¬", "ï¬", "ï¬", "ï¬", "ï¬", "ï¬", "ï¬", "ï¼¡", "ï¼¢", "ï¼£", "ï¼¤", "ï¼¥",
   "ï¼¦", "ï¼§", "ï¼¨", "ï¼©", "ï¼ª", "ï¼«", "ï¼¬", "ï¼­", "ï¼®", "ï¼¯", "ï¼°", "ï¼±", "ï¼²",
   "ï¼³", "ï¼´", "ï¼µ", "ï¼¶", "ï¼·", "ï¼¸", "ï¼¹", "ï¼º", "ï½", "ï½", "ï½", "ï½", "ï½",
   "ï½", "ï½", "ï½", "ï½", "ï½", "ï½", "ï½", "ï½", "ï½", "ï½", "ï½", "ï½", "ï½",
   "ï½", "ï½", "ï½", "ï½", "ï½", "ï½", "ï½", "ï½", "ð", "ð", "ð", "ð",
   "ð", "ð", "ð", "ð", "ð", "ð", "ð", "ð", "ð", "ð", "ð",
   "ð", "ð", "ð", "ð", "ð", "ð", "ð", "ð", "ð", "ð", "ð",
   "ð", "ð", "ð", "ð", "ð", "ð", "ð ", "ð¡", "ð¢", "ð£", "ð¤",
   "ð¥", "ð¦", "ð§", "ð¨", "ð©", "ðª", "ð«", "ð¬", "ð­", "ð®", "ð¯",
   "ð°", "ð±", "ð²", "ð³", "ð´", "ðµ", "ð¶", "ð·", "ð¸", "ð¹", "ðº",
   "ð»", "ð¼", "ð½", "ð¾", "ð¿", "ð", "ð", "ð", "ð", "ð", "ð",
   "ð", "ð", "ð", "ð", "ð", "ð", "ð", "ð", "ð", "ð", "ð°",
   "ð±", "ð²", "ð³", "ð´", "ðµ", "ð¶", "ð·", "ð¸", "ð¹", "ðº", "ð»",
   "ð¼", "ð½", "ð¾", "ð¿", "ð", "ð", "ð", "ð", "ð", "ð", "ð",
   "ð", "ð", "ð", "ð", "ð", "ð", "ð", "ð", "ð", "ð", "ð",
   "ð", "ð", "ð", "ð", "ð", "ð", "ð", "ð", "ð", "ð", "ð ",
   "ð¡", "ð¢", "ð£", "ð¤", "ð¥", "ð¦", "ð§", "ð¨", "ð©", "ðª", "ð«",
   "ð¬", "ð­", "ð®", "ð¯", "ð°", "ð±", "ð²", "ð³", "ð´", "ðµ", "ð¶",
   "ð·", "ð¸", "ð¹", "ðº", "ð»", "ð°", "ð±", "ð²", "ð³", "ð´", "ðµ",
   "ð¶", "ð·", "ð¸", "ð¹", "ðº", "ð¼", "ð½", "ð¾", "ð¿", "ð", "ð",
   "ð", "ð", "ð", "ð", "ð", "ð", "ð", "ð", "ð", "ð", "ð",
   "ð", "ð", "ð", "ð", "ð", "ð", "ð", "ð", "ð", "ð", "ð",
   "ð", "ð", "ð", "ð", "ð", "ð ", "ð¡", "ð£", "ð¤", "ð¥", "ð¦",
   "ð§", "ð¨", "ð©", "ðª", "ð«", "ð¬", "ð­", "ð®", "ð¯", "ð°", "ð±",
   "ð³", "ð´", "ðµ", "ð¶", "ð·", "ð¸", "ð¹", "ð»", "ð¼", "ð", "ð",
   "ð", "ð", "ð", "ð", "ð", "ð", "ð", "ð", "ð", "ð", "ð",
   "ð", "ð", "ð", "ð", "ð", "ð", "ð", "ð", "ð", "ð", "ð",
   "ð", "ð", "ð", "ð", "ð", "ð ", "ð¡", "ð¢", "ð£", "ð¤", "ð¥",
   "ð¦", "ð§", "ð¨", "ð©", "ðª", "ð«", "ð¬", "ð­", "ð®", "ð¯", "ð°",
   "ð²", "ð³", "ð´", "ðµ", "ð¶", "ð·", "ð¸", "ð¹", "ðº", "ð²", "ð²",
   "ð²", "ð²", "ð²", "ð²", "ð²", "ð²", "ð²", "ð²", "ð²", "ð²", "ð²",
   "ð²", "ð²", "ð²", "ð²", "ð²", "ð²", "ð²", "ð²", "ð²", "ð²", "ð²",
   "ð²", "ð²", "ð²", "ð²", "ð²", "ð²", "ð²", "ð²", "ð² ", "ð²¡", "ð²¢",
   "ð²£", "ð²¤", "ð²¥", "ð²¦", "ð²§", "ð²¨", "ð²©", "ð²ª", "ð²«", "ð²¬", "ð²­",
   "ð²®", "ð²¯", "ð²°", "ð²±", "ð²²", "ð³", "ð³", "ð³", "ð³", "ð³", "ð³",
   "ð³", "ð³", "ð³", "ð³", "ð³", "ð³", "ð³", "ð³", "ð³", "ð³", "ð³",
   "ð³", "ð³", "ð³", "ð³", "ð³", "ð³", "ð³", "ð³", "ð³", "ð³", "ð³",
   "ð³", "ð³", "ð³", "ð³", "ð³ ", "ð³¡", "ð³¢", "ð³£", "ð³¤", "ð³¥", "ð³¦",
   "ð³§", "ð³¨", "ð³©", "ð³ª", "ð³«", "ð³¬", "ð³­", "ð³®", "ð³¯", "ð³°", "ð³±",
   "ð³²", "ð¢ ", "ð¢¡", "ð¢¢", "ð¢£", "ð¢¤", "ð¢¥", "ð¢¦", "ð¢§", "ð¢¨", "ð¢©",
   "ð¢ª", "ð¢«", "ð¢¬", "ð¢­", "ð¢®", "ð¢¯", "ð¢°", "ð¢±", "ð¢²", "ð¢³", "ð¢´",
   "ð¢µ", "ð¢¶", "ð¢·", "ð¢¸", "ð¢¹", "ð¢º", "ð¢»", "ð¢¼", "ð¢½", "ð¢¾", "ð¢¿",
   "ð£", "ð£", "ð£", "ð£", "ð£", "ð£", "ð£", "ð£", "ð£", "ð£", "ð£",
   "ð£", "ð£", "ð£", "ð£", "ð£", "ð£", "ð£", "ð£", "ð£", "ð£", "ð£",
   "ð£", "ð£", "ð£", "ð£", "ð£", "ð£", "ð£", "ð£", "ð£", "ð£", "ð¹",
   "ð¹", "ð¹", "ð¹", "ð¹", "ð¹", "ð¹", "ð¹", "ð¹", "ð¹", "ð¹", "ð¹",
   "ð¹", "ð¹", "ð¹", "ð¹", "ð¹", "ð¹", "ð¹", "ð¹", "ð¹", "ð¹", "ð¹",
   "ð¹", "ð¹", "ð¹", "ð¹", "ð¹", "ð¹", "ð¹", "ð¹", "ð¹", "ð¹ ", "ð¹¡",
   "ð¹¢", "ð¹£", "ð¹¤", "ð¹¥", "ð¹¦", "ð¹§", "ð¹¨", "ð¹©", "ð¹ª", "ð¹«", "ð¹¬",
   "ð¹­", "ð¹®", "ð¹¯", "ð¹°", "ð¹±", "ð¹²", "ð¹³", "ð¹´", "ð¹µ", "ð¹¶", "ð¹·",
   "ð¹¸", "ð¹¹", "ð¹º", "ð¹»", "ð¹¼", "ð¹½", "ð¹¾", "ð¹¿", "ð", "ð", "ð",
   "ð", "ð", "ð", "ð", "ð", "ð", "ð", "ð", "ð", "ð", "ð",
   "ð", "ð", "ð", "ð", "ð", "ð", "ð", "ð", "ð", "ð", "ð",
   "ð", "ð", "ð", "ð", "ð", "ð", "ð", "ð ", "ð¡", "ð¢", "ð£",
   "ð¤", "ð¥", "ð¦", "ð§", "ð¨", "ð©", "ðª", "ð«", "ð¬", "ð­", "ð®",
   "ð¯", "ð°", "ð±", "ð²", "ð³", "ð´", "ðµ", "ð¶", "ð·", "ð¸", "ð¹",
   "ðº", "ð»", "ð¼", "ð½", "ð¾", "ð¿", "ð", "ð", "ð", "ð", "ð",
   "ð", "ð", "ð", "ð", "ð", "ð", "ð", "ð", "ð", "ð", "ð",
   "ð", "ð", "ð", "ð", "ð", "ð", "ð", "ð", "ð", "ð", "ð",
   "ð", "ð", "ð", "ð", "ð ", "ð¡", "ð¢", "ð£", "ð¤", "ð¥", "ð¦",
   "ð§", "ð¨", "ð©", "ðª", "ð«", "ð¬", "ð­", "ð®", "ð¯", "ð°", "ð±",
   "ð²", "ð³", "ð´", "ðµ", "ð¶", "ð·", "ð¸", "ð¹", "ðº", "ð»", "ð¼",
   "ð½", "ð¾", "ð¿", "ð", "ð", "ð", "ð", "ð", "ð", "ð", "ð",
   "ð", "ð", "ð", "ð", "ð", "ð", "ð", "ð", "ð", "ð", "ð",
   "ð", "ð", "ð", "ð", "ð", "ð", "ð", "ð", "ð", "ð", "ð",
   "ð", "ð¢", "ð¥", "ð¦", "ð©", "ðª", "ð«", "ð¬", "ð®", "ð¯", "ð°",
   "ð±", "ð²", "ð³", "ð´", "ðµ", "ð¶", "ð·", "ð¸", "ð¹", "ð»", "ð½",
   "ð¾", "ð¿", "ð", "ð", "ð", "ð", "ð", "ð", "ð", "ð", "ð",
   "ð", "ð", "ð", "ð", "ð", "ð", "ð", "ð", "ð", "ð", "ð",
   "ð", "ð", "ð", "ð", "ð", "ð", "ð", "ð", "ð", "ð", "ð",
   "ð ", "ð¡", "ð¢", "ð£", "ð¤", "ð¥", "ð¦", "ð§", "ð¨", "ð©", "ðª",
   "ð«", "ð¬", "ð­", "ð®", "ð¯", "ð°", "ð±", "ð²", "ð³", "ð´", "ðµ",
   "ð¶", "ð·", "ð¸", "ð¹", "ðº", "ð»", "ð¼", "ð½", "ð¾", "ð¿", "ð",
   "ð", "ð", "ð", "ð", "ð", "ð", "ð", "ð", "ð", "ð", "ð",
   "ð", "ð", "ð", "ð", "ð", "ð", "ð", "ð", "ð", "ð", "ð",
   "ð", "ð", "ð", "ð", "ð ", "ð¡", "ð¢", "ð£", "ð¤", "ð¥", "ð¦",
   "ð§", "ð¨", "ð©", "ðª", "ð«", "ð¬", "ð­", "ð®", "ð¯", "ð°", "ð±",
   "ð²", "ð³", "ð´", "ðµ", "ð¶", "ð·", "ð¸", "ð¹", "ð»", "ð¼", "ð½",
   "ð¾", "ð", "ð", "ð", "ð", "ð", "ð", "ð", "ð", "ð", "ð",
   "ð", "ð", "ð", "ð", "ð", "ð", "ð", "ð", "ð", "ð", "ð",
   "ð", "ð", "ð", "ð", "ð", "ð", "ð ", "ð¡", "ð¢", "ð£", "ð¤",
   "ð¥", "ð¦", "ð§", "ð¨", "ð©", "ðª", "ð«", "ð¬", "ð­", "ð®", "ð¯",
   "ð°", "ð±", "ð²", "ð³", "ð´", "ðµ", "ð¶", "ð·", "ð¸", "ð¹", "ðº",
   "ð»", "ð¼", "ð½", "ð¾", "ð¿", "ð", "ð", "ð", "ð", "ð", "ð",
   "ð", "ð", "ð", "ð", "ð", "ð", "ð", "ð", "ð", "ð", "ð",
   "ð", "ð", "ð", "ð", "ð", "ð", "ð", "ð", "ð", "ð", "ð",
   "ð", "ð", "ð", "ð", "ð ", "ð¡", "ð¢", "ð£", "ð¤", "ð¥", "ð¦",
   "ð§", "ð¨", "ð©", "ðª", "ð«", "ð¬", "ð­", "ð®", "ð¯", "ð°", "ð±",
   "ð²", "ð³", "ð´", "ðµ", "ð¶", "ð·", "ð¸", "ð¹", "ðº", "ð»", "ð¼",
   "ð½", "ð¾", "ð¿", "ð", "ð", "ð", "ð", "ð", "ð", "ð", "ð",
   "ð", "ð", "ð", "ð", "ð", "ð", "ð", "ð", "ð", "ð", "ð",
   "ð", "ð", "ð", "ð", "ð", "ð", "ð", "ð", "ð", "ð", "ð",
   "ð", "ð", "ð ", "ð¡", "ð¢", "ð£", "ð¤", "ð¥", "ð¦", "ð§", "ð¨",
   "ð©", "ðª", "ð«", "ð¬", "ð­", "ð®", "ð¯", "ð°", "ð±", "ð²", "ð³",
   "ð´", "ðµ", "ð¶", "ð·", "ð¸", "ð¹", "ðº", "ð»", "ð¼", "ð½", "ð¾",
   "ð¿", "ð", "ð", "ð", "ð", "ð", "ð", "ð", "ð", "ð", "ð",
   "ð", "ð", "ð", "ð", "ð", "ð", "ð", "ð", "ð", "ð", "ð",
   "ð", "ð", "ð", "ð", "ð", "ð", "ð", "ð", "ð", "ð", "ð",
   "ð ", "ð¡", "ð¢", "ð£", "ð¤", "ð¥", "ð¦", "ð§", "ð¨", "ð©", "ðª",
   "ð«", "ð¬", "ð­", "ð®", "ð¯", "ð°", "ð±", "ð²", "ð³", "ð´", "ðµ",
   "ð¶", "ð·", "ð¸", "ð¹", "ðº", "ð»", "ð¼", "ð½", "ð¾", "ð¿", "ð",
   "ð", "ð", "ð", "ð", "ð", "ð", "ð", "ð", "ð", "ð", "ð",
   "ð", "ð", "ð", "ð", "ð", "ð", "ð", "ð", "ð", "ð", "ð",
   "ð", "ð", "ð", "ð", "ð", "ð", "ð", "ð", "ð", "ð ", "ð¡",
   "ð¢", "ð£", "ð¤", "ð¥", "ð¦", "ð§", "ð¨", "ð©", "ðª", "ð«", "ð¬",
   "ð­", "ð®", "ð¯", "ð°", "ð±", "ð²", "ð³", "ð´", "ðµ", "ð¶", "ð·",
   "ð¸", "ð¹", "ðº", "ð»", "ð¼", "ð½", "ð¾", "ð¿", "ð", "ð", "ð",
   "ð", "ð", "ð", "ð", "ð", "ð", "ð", "ð", "ð", "ð", "ð",
   "ð", "ð", "ð", "ð", "ð", "ð", "ð", "ð", "ð", "ð", "ð",
   "ð", "ð", "ð", "ð", "ð", "ð", "ð", "ð ", "ð¡", "ð¢", "ð£",
   "ð¤", "ð¥", "ð¨", "ð©", "ðª", "ð«", "ð¬", "ð­", "ð®", "ð¯", "ð°",
   "ð±", "ð²", "ð³", "ð´", "ðµ", "ð¶", "ð·", "ð¸", "ð¹", "ðº", "ð»",
   "ð¼", "ð½", "ð¾", "ð¿", "ð", "ð", "ð", "ð", "ð", "ð", "ð",
   "ð", "ð", "ð", "ð", "ð", "ð", "ð", "ð", "ð", "ð", "ð",
   "ð", "ð", "ð", "ð", "ð", "ð", "ð", "ð", "ð", "ð", "ð",
   "ð", "ð ", "ð¡", "ð¢", "ð£", "ð¤", "ð¥", "ð¦", "ð§", "ð¨", "ð©",
   "ðª", "ð«", "ð¬", "ð­", "ð®", "ð¯", "ð°", "ð±", "ð²", "ð³", "ð´",
   "ðµ", "ð¶", "ð·", "ð¸", "ð¹", "ðº", "ð¼", "ð½", "ð¾", "ð¿", "ð",
   "ð", "ð", "ð", "ð", "ð", "ð", "ð", "ð", "ð", "ð", "ð",
   "ð", "ð", "ð", "ð", "ð", "ð", "ð", "ð", "ð", "ð", "ð",
   "ð", "ð", "ð", "ð", "ð", "ð", "ð", "ð", "ð ", "ð¡", "ð¢",
   "ð£", "ð¤", "ð¥", "ð¦", "ð§", "ð¨", "ð©", "ðª", "ð«", "ð¬", "ð­",
   "ð®", "ð¯", "ð°", "ð±", "ð²", "ð³", "ð´", "ð¶", "ð·", "ð¸", "ð¹",
   "ðº", "ð»", "ð¼", "ð½", "ð¾", "ð¿", "ð", "ð", "ð", "ð", "ð",
   "ð", "ð", "ð", "ð", "ð", "ð", "ð", "ð", "ð", "ð", "ð",
   "ð", "ð", "ð", "ð", "ð", "ð", "ð", "ð", "ð", "ð", "ð",
   "ð", "ð", "ð", "ð", "ð ", "ð¡", "ð¢", "ð£", "ð¤", "ð¥", "ð¦",
   "ð§", "ð¨", "ð©", "ðª", "ð«", "ð¬", "ð­", "ð®", "ð°", "ð±", "ð²",
   "ð³", "ð´", "ðµ", "ð¶", "ð·", "ð¸", "ð¹", "ðº", "ð»", "ð¼", "ð½",
   "ð¾", "ð¿", "ð", "ð", "ð", "ð", "ð", "ð", "ð", "ð", "ð",
   "ð", "ð", "ð", "ð", "ð", "ð", "ð", "ð", "ð", "ð", "ð",
   "ð", "ð", "ð", "ð", "ð", "ð", "ð", "ð", "ð", "ð", "ð",
   "ð ", "ð¡", "ð¢", "ð£", "ð¤", "ð¥", "ð¦", "ð§", "ð¨", "ðª", "ð«",
   "ð¬", "ð­", "ð®", "ð¯", "ð°", "ð±", "ð²", "ð³", "ð´", "ðµ", "ð¶",
   "ð·", "ð¸", "ð¹", "ðº", "ð»", "ð¼", "ð½", "ð¾", "ð¿", "ð", "ð",
   "ð", "ð", "ð", "ð", "ð", "ð", "ð", "ð", "ð", "ð¼", "ð¼",
   "ð¼", "ð¼", "ð¼", "ð¼", "ð¼", "ð¼", "ð¼", "ð¼", "ð¼", "ð¼", "ð¼",
   "ð¼", "ð¼", "ð¼", "ð¼", "ð¼", "ð¼", "ð¼", "ð¼", "ð¼", "ð¼", "ð¼",
   "ð¼", "ð¼", "ð¼", "ð¼", "ð¼", "ð¼", "ð¤", "ð¤", "ð¤", "ð¤", "ð¤",
   "ð¤", "ð¤", "ð¤", "ð¤", "ð¤", "ð¤", "ð¤", "ð¤", "ð¤", "ð¤", "ð¤",
   "ð¤", "ð¤", "ð¤", "ð¤", "ð¤", "ð¤", "ð¤", "ð¤", "ð¤", "ð¤", "ð¤",
   "ð¤", "ð¤", "ð¤", "ð¤", "ð¤", "ð¤ ", "ð¤¡", "ð¤¢", "ð¤£", "ð¤¤", "ð¤¥",
   "ð¤¦", "ð¤§", "ð¤¨", "ð¤©", "ð¤ª", "ð¤«", "ð¤¬", "ð¤­", "ð¤®", "ð¤¯", "ð¤°",
   "ð¤±", "ð¤²", "ð¤³", "ð¤´", "ð¤µ", "ð¤¶", "ð¤·", "ð¤¸", "ð¤¹", "ð¤º", "ð¤»",
   "ð¤¼", "ð¤½", "ð¤¾", "ð¤¿", "ð¥", "ð¥", "ð¥", "ð¥", "ð°", "ð±", "ð²",
   "ð³", "ð´", "ðµ", "ð¶", "ð·", "ð¸", "ð¹", "ðº", "ð»", "ð¼", "ð½",
   "ð¾", "ð¿", "ð", "ð", "ð", "ð", "ð", "ð", "ð", "ð", "ð",
   "ð", "ð", "ð", "ð", "ð", "ð", "ð", "ð", "ð", "ð", "ð",
   "ð", "ð", "ð", "ð", "ð", "ð", "ð ", "ð¡", "ð¢", "ð£", "ð¤",
   "ð¥", "ð¦", "ð§", "ð¨", "ð©", "ð°", "ð±", "ð²", "ð³", "ð´", "ðµ",
   "ð¶", "ð·", "ð¸", "ð¹", "ðº", "ð»", "ð¼", "ð½", "ð¾", "ð¿", "ð",
   "ð", "ð", "ð", "ð", "ð", "ð", "ð", "ð", "ð"
  }

\* The case-ignorable characters
CaseIgnorable ==
  {
   GraveAccent,
   "'", ".", ":", "^", "Â¨", "Â­", "Â¯", "Â´", "Â·", "Â¸", "Ê°", "Ê±", "Ê²", "Ê³", "Ê´",
   "Êµ", "Ê¶", "Ê·", "Ê¸", "Ê¹", "Êº", "Ê»", "Ê¼", "Ê½", "Ê¾", "Ê¿", "Ë", "Ë", "Ë", "Ë",
   "Ë", "Ë", "Ë", "Ë", "Ë", "Ë", "Ë", "Ë", "Ë", "Ë", "Ë", "Ë", "Ë", "Ë", "Ë",
   "Ë", "Ë", "Ë", "Ë", "Ë", "Ë", "Ë", "Ë", "Ë", "Ë", "Ë", "Ë", "Ë", "Ë ", "Ë¡",
   "Ë¢", "Ë£", "Ë¤", "Ë¥", "Ë¦", "Ë§", "Ë¨", "Ë©", "Ëª", "Ë«", "Ë¬", "Ë­", "Ë®", "Ë¯", "Ë°",
   "Ë±", "Ë²", "Ë³", "Ë´", "Ëµ", "Ë¶", "Ë·", "Ë¸", "Ë¹", "Ëº", "Ë»", "Ë¼", "Ë½", "Ë¾", "Ë¿",
   "Ì", "Ì", "Ì", "Ì", "Ì", "Ì", "Ì", "Ì", "Ì", "Ì", "Ì", "Ì", "Ì", "Ì", "Ì",
   "Ì", "Ì", "Ì", "Ì", "Ì", "Ì", "Ì", "Ì", "Ì", "Ì", "Ì", "Ì", "Ì", "Ì", "Ì",
   "Ì", "Ì", "Ì ", "Ì¡", "Ì¢", "Ì£", "Ì¤", "Ì¥", "Ì¦", "Ì§", "Ì¨", "Ì©", "Ìª", "Ì«", "Ì¬",
   "Ì­", "Ì®", "Ì¯", "Ì°", "Ì±", "Ì²", "Ì³", "Ì´", "Ìµ", "Ì¶", "Ì·", "Ì¸", "Ì¹", "Ìº", "Ì»",
   "Ì¼", "Ì½", "Ì¾", "Ì¿", "Í", "Í", "Í", "Í", "Í", "Í", "Í", "Í", "Í", "Í", "Í",
   "Í", "Í", "Í", "Í", "Í", "Í", "Í", "Í", "Í", "Í", "Í", "Í", "Í", "Í", "Í",
   "Í", "Í", "Í", "Í", "Í", "Í", "Í ", "Í¡", "Í¢", "Í£", "Í¤", "Í¥", "Í¦", "Í§", "Í¨",
   "Í©", "Íª", "Í«", "Í¬", "Í­", "Í®", "Í¯", "Í´", "Íµ", "Íº", "Î", "Î", "Î", "Ò", "Ò",
   "Ò", "Ò", "Ò", "Ò", "Ò", "Õ", "Õ", "Ö", "Ö", "Ö", "Ö", "Ö", "Ö", "Ö", "Ö",
   "Ö", "Ö", "Ö", "Ö", "Ö", "Ö", "Ö", "Ö ", "Ö¡", "Ö¢", "Ö£", "Ö¤", "Ö¥", "Ö¦", "Ö§",
   "Ö¨", "Ö©", "Öª", "Ö«", "Ö¬", "Ö­", "Ö®", "Ö¯", "Ö°", "Ö±", "Ö²", "Ö³", "Ö´", "Öµ", "Ö¶",
   "Ö·", "Ö¸", "Ö¹", "Öº", "Ö»", "Ö¼", "Ö½", "Ö¿", "×", "×", "×", "×", "×", "×´", "Ø",
   "Ø", "Ø", "Ø", "Ø", "Ø", "Ø", "Ø", "Ø", "Ø", "Ø", "Ø", "Ø", "Ø", "Ø", "Ø",
   "Ø", "Ø", "Ù", "Ù", "Ù", "Ù", "Ù", "Ù", "Ù", "Ù", "Ù", "Ù", "Ù", "Ù", "Ù",
   "Ù", "Ù", "Ù", "Ù", "Ù", "Ù", "Ù", "Ù", "Ù", "Ù°", "Û", "Û", "Û", "Û", "Û",
   "Û", "Û", "Û", "Û", "Û ", "Û¡", "Û¢", "Û£", "Û¤", "Û¥", "Û¦", "Û§", "Û¨", "Ûª", "Û«",
   "Û¬", "Û­", "Ü", "Ü", "Ü°", "Ü±", "Ü²", "Ü³", "Ü´", "Üµ", "Ü¶", "Ü·", "Ü¸", "Ü¹", "Üº",
   "Ü»", "Ü¼", "Ü½", "Ü¾", "Ü¿", "Ý", "Ý", "Ý", "Ý", "Ý", "Ý", "Ý", "Ý", "Ý", "Ý",
   "Ý", "Þ¦", "Þ§", "Þ¨", "Þ©", "Þª", "Þ«", "Þ¬", "Þ­", "Þ®", "Þ¯", "Þ°", "ß«", "ß¬", "ß­",
   "ß®", "ß¯", "ß°", "ß±", "ß²", "ß³", "ß´", "ßµ", "ßº", "ß½", "à ", "à ", "à ", "à ",
   "à ", "à ", "à ", "à ", "à ", "à ", "à  ", "à ¡", "à ¢", "à £", "à ¤", "à ¥", "à ¦",
   "à §", "à ¨", "à ©", "à ª", "à «", "à ¬", "à ­", "à¡", "à¡", "à¡", "à¢", "à¢", "à¢",
   "à¢", "à¢", "à¢", "à¢", "à¢", "à¢", "à¢", "à¢", "à£", "à£", "à£", "à£", "à£",
   "à£", "à£", "à£", "à£", "à£", "à£", "à£", "à£", "à£", "à£", "à£", "à£", "à£",
   "à£", "à£", "à£", "à£", "à£", "à£ ", "à£¡", "à£¢", "à££", "à£¤", "à£¥", "à£¦", "à£§",
   "à£¨", "à£©", "à£ª", "à£«", "à£¬", "à£­", "à£®", "à£¯", "à£°", "à£±", "à£²", "à£³", "à£´",
   "à£µ", "à£¶", "à£·", "à£¸", "à£¹", "à£º", "à£»", "à£¼", "à£½", "à£¾", "à£¿", "à¤", "à¤",
   "à¤", "à¤º", "à¤¼", "à¥", "à¥", "à¥", "à¥", "à¥", "à¥", "à¥", "à¥", "à¥", "à¥",
   "à¥", "à¥", "à¥", "à¥", "à¥", "à¥", "à¥¢", "à¥£", "à¥±", "à¦", "à¦¼", "à§", "à§",
   "à§", "à§", "à§", "à§¢", "à§£", "à§¾", "à¨", "à¨", "à¨¼", "à©", "à©", "à©", "à©",
   "à©", "à©", "à©", "à©", "à©°", "à©±", "à©µ", "àª", "àª", "àª¼", "à«", "à«", "à«",
   "à«", "à«", "à«", "à«", "à«", "à«¢", "à«£", "à«º", "à«»", "à«¼", "à«½", "à«¾", "à«¿",
   "à¬", "à¬¼", "à¬¿", "à­", "à­", "à­", "à­", "à­", "à­", "à­", "à­¢", "à­£", "à®",
   "à¯", "à¯", "à°", "à°", "à°¼", "à°¾", "à°¿", "à±", "à±", "à±", "à±", "à±", "à±",
   "à±", "à±", "à±", "à±", "à±¢", "à±£", "à²", "à²¼", "à²¿", "à³", "à³", "à³", "à³¢",
   "à³£", "à´", "à´", "à´»", "à´¼", "àµ", "àµ", "àµ", "àµ", "àµ", "àµ¢", "àµ£", "à¶",
   "à·", "à·", "à·", "à·", "à·", "à¸±", "à¸´", "à¸µ", "à¸¶", "à¸·", "à¸¸", "à¸¹", "à¸º",
   "à¹", "à¹", "à¹", "à¹", "à¹", "à¹", "à¹", "à¹", "à¹", "àº±", "àº´", "àºµ", "àº¶",
   "àº·", "àº¸", "àº¹", "àºº", "àº»", "àº¼", "à»", "à»", "à»", "à»", "à»", "à»", "à»",
   "à¼", "à¼", "à¼µ", "à¼·", "à¼¹", "à½±", "à½²", "à½³", "à½´", "à½µ", "à½¶", "à½·", "à½¸",
   "à½¹", "à½º", "à½»", "à½¼", "à½½", "à½¾", "à¾", "à¾", "à¾", "à¾", "à¾", "à¾", "à¾",
   "à¾", "à¾", "à¾", "à¾", "à¾", "à¾", "à¾", "à¾", "à¾", "à¾", "à¾", "à¾", "à¾",
   "à¾", "à¾", "à¾", "à¾", "à¾", "à¾ ", "à¾¡", "à¾¢", "à¾£", "à¾¤", "à¾¥", "à¾¦", "à¾§",
   "à¾¨", "à¾©", "à¾ª", "à¾«", "à¾¬", "à¾­", "à¾®", "à¾¯", "à¾°", "à¾±", "à¾²", "à¾³", "à¾´",
   "à¾µ", "à¾¶", "à¾·", "à¾¸", "à¾¹", "à¾º", "à¾»", "à¾¼", "à¿", "á­", "á®", "á¯", "á°",
   "á²", "á³", "á´", "áµ", "á¶", "á·", "á¹", "áº", "á½", "á¾", "á", "á", "á",
   "á", "á ", "á±", "á²", "á³", "á´", "á", "á", "á", "á", "á", "á¼", "á",
   "á", "á", "á", "á", "á", "á²", "á³", "á", "á", "á²", "á³", "á´", "áµ",
   "á·", "á¸", "á¹", "áº", "á»", "á¼", "á½", "á", "á", "á", "á", "á", "á",
   "á", "á", "á", "á", "á", "á", "á", "á", "á ", "á ", "á ", "á ", "á ",
   "á¡", "á¢", "á¢", "á¢©", "á¤ ", "á¤¡", "á¤¢", "á¤§", "á¤¨", "á¤²", "á¤¹", "á¤º", "á¤»",
   "á¨", "á¨", "á¨", "á©", "á©", "á©", "á©", "á©", "á©", "á©", "á©", "á© ", "á©¢",
   "á©¥", "á©¦", "á©§", "á©¨", "á©©", "á©ª", "á©«", "á©¬", "á©³", "á©´", "á©µ", "á©¶", "á©·",
   "á©¸", "á©¹", "á©º", "á©»", "á©¼", "á©¿", "áª§", "áª°", "áª±", "áª²", "áª³", "áª´", "áªµ",
   "áª¶", "áª·", "áª¸", "áª¹", "áªº", "áª»", "áª¼", "áª½", "áª¾", "áª¿", "á«", "á«", "á«",
   "á«", "á«", "á«", "á«", "á«", "á«", "á«", "á«", "á«", "á«", "á«", "á«", "á¬",
   "á¬", "á¬", "á¬", "á¬´", "á¬¶", "á¬·", "á¬¸", "á¬¹", "á¬º", "á¬¼", "á­", "á­«", "á­¬",
   "á­­", "á­®", "á­¯", "á­°", "á­±", "á­²", "á­³", "á®", "á®", "á®¢", "á®£", "á®¤", "á®¥",
   "á®¨", "á®©", "á®«", "á®¬", "á®­", "á¯¦", "á¯¨", "á¯©", "á¯­", "á¯¯", "á¯°", "á¯±", "á°¬",
   "á°­", "á°®", "á°¯", "á°°", "á°±", "á°²", "á°³", "á°¶", "á°·", "á±¸", "á±¹", "á±º", "á±»",
   "á±¼", "á±½", "á³", "á³", "á³", "á³", "á³", "á³", "á³", "á³", "á³", "á³", "á³",
   "á³", "á³", "á³", "á³", "á³ ", "á³¢", "á³£", "á³¤", "á³¥", "á³¦", "á³§", "á³¨", "á³­",
   "á³´", "á³¸", "á³¹", "á´¬", "á´­", "á´®", "á´¯", "á´°", "á´±", "á´²", "á´³", "á´´", "á´µ",
   "á´¶", "á´·", "á´¸", "á´¹", "á´º", "á´»", "á´¼", "á´½", "á´¾", "á´¿", "áµ", "áµ", "áµ",
   "áµ", "áµ", "áµ", "áµ", "áµ", "áµ", "áµ", "áµ", "áµ", "áµ", "áµ", "áµ", "áµ",
   "áµ", "áµ", "áµ", "áµ", "áµ", "áµ", "áµ", "áµ", "áµ", "áµ", "áµ", "áµ", "áµ",
   "áµ", "áµ", "áµ", "áµ ", "áµ¡", "áµ¢", "áµ£", "áµ¤", "áµ¥", "áµ¦", "áµ§", "áµ¨", "áµ©",
   "áµª", "áµ¸", "á¶", "á¶", "á¶", "á¶", "á¶", "á¶ ", "á¶¡", "á¶¢", "á¶£", "á¶¤", "á¶¥",
   "á¶¦", "á¶§", "á¶¨", "á¶©", "á¶ª", "á¶«", "á¶¬", "á¶­", "á¶®", "á¶¯", "á¶°", "á¶±", "á¶²",
   "á¶³", "á¶´", "á¶µ", "á¶¶", "á¶·", "á¶¸", "á¶¹", "á¶º", "á¶»", "á¶¼", "á¶½", "á¶¾", "á¶¿",
   "á·", "á·", "á·", "á·", "á·", "á·", "á·", "á·", "á·", "á·", "á·", "á·", "á·",
   "á·", "á·", "á·", "á·", "á·", "á·", "á·", "á·", "á·", "á·", "á·", "á·", "á·",
   "á·", "á·", "á·", "á·", "á·", "á·", "á· ", "á·¡", "á·¢", "á·£", "á·¤", "á·¥", "á·¦",
   "á·§", "á·¨", "á·©", "á·ª", "á·«", "á·¬", "á·­", "á·®", "á·¯", "á·°", "á·±", "á·²", "á·³",
   "á·´", "á·µ", "á·¶", "á··", "á·¸", "á·¹", "á·º", "á·»", "á·¼", "á·½", "á·¾", "á·¿", "á¾½",
   "á¾¿", "á¿", "á¿", "á¿", "á¿", "á¿", "á¿", "á¿", "á¿", "á¿­", "á¿®", "á¿¯", "á¿½",
   "á¿¾", "â", "â", "â", "â", "â", "â", "â", "â¤", "â§", "âª", "â«", "â¬",
   "â­", "â®", "â ", "â¡", "â¢", "â£", "â¤", "â¦", "â§", "â¨", "â©", "âª", "â«",
   "â¬", "â­", "â®", "â¯", "â±", "â¿", "â", "â", "â", "â", "â", "â", "â",
   "â", "â", "â", "â", "â", "â", "â", "â", "â", "â", "â", "â", "â",
   "â", "â", "â", "â", "â", "â", "â", "â", "â", "â ", "â¡", "â¢", "â£",
   "â¤", "â¥", "â¦", "â§", "â¨", "â©", "âª", "â«", "â¬", "â­", "â®", "â¯", "â°",
   "â±¼", "â±½", "â³¯", "â³°", "â³±", "âµ¯", "âµ¿", "â· ", "â·¡", "â·¢", "â·£", "â·¤", "â·¥",
   "â·¦", "â·§", "â·¨", "â·©", "â·ª", "â·«", "â·¬", "â·­", "â·®", "â·¯", "â·°", "â·±", "â·²",
   "â·³", "â·´", "â·µ", "â·¶", "â··", "â·¸", "â·¹", "â·º", "â·»", "â·¼", "â·½", "â·¾", "â·¿",
   "â¸¯", "ã", "ãª", "ã«", "ã¬", "ã­", "ã±", "ã²", "ã³", "ã´", "ãµ", "ã»", "ã",
   "ã", "ã", "ã", "ã", "ã", "ã¼", "ã½", "ã¾", "ê", "ê¸", "ê¹", "êº", "ê»",
   "ê¼", "ê½", "ê", "ê¯", "ê°", "ê±", "ê²", "ê´", "êµ", "ê¶", "ê·", "ê¸", "ê¹",
   "êº", "ê»", "ê¼", "ê½", "ê¿", "ê", "ê", "ê", "ê", "ê°", "ê±", "ê", "ê",
   "ê", "ê", "ê", "ê", "ê", "ê", "ê", "ê", "ê", "ê", "ê", "ê", "ê",
   "ê", "ê", "ê", "ê", "ê", "ê", "ê", "ê", "ê", "ê", "ê", "ê", "ê",
   "ê", "ê", "ê", "ê", "ê ", "ê¡", "ê°", "ê", "ê", "ê", "ê²", "ê³", "ê´",
   "ê¸", "ê¹", "ê ", "ê ", "ê ", "ê ¥", "ê ¦", "ê ¬", "ê£", "ê£", "ê£ ", "ê£¡", "ê£¢",
   "ê££", "ê£¤", "ê£¥", "ê£¦", "ê£§", "ê£¨", "ê£©", "ê£ª", "ê£«", "ê£¬", "ê£­", "ê£®", "ê£¯",
   "ê£°", "ê£±", "ê£¿", "ê¤¦", "ê¤§", "ê¤¨", "ê¤©", "ê¤ª", "ê¤«", "ê¤¬", "ê¤­", "ê¥", "ê¥",
   "ê¥", "ê¥", "ê¥", "ê¥", "ê¥", "ê¥", "ê¥", "ê¥", "ê¥", "ê¦", "ê¦", "ê¦", "ê¦³",
   "ê¦¶", "ê¦·", "ê¦¸", "ê¦¹", "ê¦¼", "ê¦½", "ê§", "ê§¥", "ê§¦", "ê¨©", "ê¨ª", "ê¨«", "ê¨¬",
   "ê¨­", "ê¨®", "ê¨±", "ê¨²", "ê¨µ", "ê¨¶", "ê©", "ê©", "ê©°", "ê©¼", "êª°", "êª²", "êª³",
   "êª´", "êª·", "êª¸", "êª¾", "êª¿", "ê«", "ê«", "ê«¬", "ê«­", "ê«³", "ê«´", "ê«¶", "ê­",
   "ê­", "ê­", "ê­", "ê­", "ê­©", "ê­ª", "ê­«", "ê¯¥", "ê¯¨", "ê¯­", "ï¬", "ï®²", "ï®³",
   "ï®´", "ï®µ", "ï®¶", "ï®·", "ï®¸", "ï®¹", "ï®º", "ï®»", "ï®¼", "ï®½", "ï®¾", "ï®¿", "ï¯",
   "ï¯", "ï¯", "ï¸", "ï¸", "ï¸", "ï¸", "ï¸", "ï¸", "ï¸", "ï¸", "ï¸", "ï¸", "ï¸",
   "ï¸", "ï¸", "ï¸", "ï¸", "ï¸", "ï¸", "ï¸ ", "ï¸¡", "ï¸¢", "ï¸£", "ï¸¤", "ï¸¥", "ï¸¦",
   "ï¸§", "ï¸¨", "ï¸©", "ï¸ª", "ï¸«", "ï¸¬", "ï¸­", "ï¸®", "ï¸¯", "ï¹", "ï¹", "ï»¿", "ï¼",
   "ï¼", "ï¼", "ï¼¾", "ï½", "ï½°", "ï¾", "ï¾", "ï¿£", "ï¿¹", "ï¿º", "ï¿»", "ð½", "ð ",
   "ð¶", "ð·", "ð¸", "ð¹", "ðº", "ð", "ð", "ð", "ð", "ð", "ð",
   "ð", "ð", "ð", "ð", "ð", "ð", "ð", "ð", "ð", "ð", "ð",
   "ð", "ð", "ð", "ð", "ð", "ð", "ð", "ð", "ð", "ð", "ð",
   "ð", "ð", "ð", "ð ", "ð¡", "ð¢", "ð£", "ð¤", "ð¥", "ð¦", "ð§",
   "ð¨", "ð©", "ðª", "ð«", "ð¬", "ð­", "ð®", "ð¯", "ð°", "ð²", "ð³",
   "ð´", "ðµ", "ð¶", "ð·", "ð¸", "ð¹", "ðº", "ð¨", "ð¨", "ð¨", "ð¨",
   "ð¨", "ð¨", "ð¨", "ð¨", "ð¨", "ð¨¸", "ð¨¹", "ð¨º", "ð¨¿", "ð«¥", "ð«¦",
   "ð´¤", "ð´¥", "ð´¦", "ð´§", "ðº«", "ðº¬", "ð½", "ð½", "ð½", "ð½", "ð½",
   "ð½", "ð½", "ð½", "ð½", "ð½", "ð½", "ð¾", "ð¾", "ð¾", "ð¾", "ð",
   "ð¸", "ð¹", "ðº", "ð»", "ð¼", "ð½", "ð¾", "ð¿", "ð", "ð", "ð",
   "ð", "ð", "ð", "ð", "ð°", "ð³", "ð´", "ð¿", "ð", "ð", "ð³",
   "ð´", "ðµ", "ð¶", "ð¹", "ðº", "ð½", "ð", "ð", "ð", "ð", "ð",
   "ð§", "ð¨", "ð©", "ðª", "ð«", "ð­", "ð®", "ð¯", "ð°", "ð±", "ð²",
   "ð³", "ð´", "ð³", "ð", "ð", "ð¶", "ð·", "ð¸", "ð¹", "ðº", "ð»",
   "ð¼", "ð½", "ð¾", "ð", "ð", "ð", "ð", "ð", "ð¯", "ð°", "ð±",
   "ð´", "ð¶", "ð·", "ð¾", "ð", "ð£", "ð¤", "ð¥", "ð¦", "ð§", "ð¨",
   "ð©", "ðª", "ð", "ð", "ð»", "ð¼", "ð", "ð¦", "ð§", "ð¨", "ð©",
   "ðª", "ð«", "ð¬", "ð°", "ð±", "ð²", "ð³", "ð´", "ð¸", "ð¹", "ðº",
   "ð»", "ð¼", "ð½", "ð¾", "ð¿", "ð", "ð", "ð", "ð", "ð", "ð³",
   "ð´", "ðµ", "ð¶", "ð·", "ð¸", "ðº", "ð¿", "ð", "ð", "ð", "ð²",
   "ð³", "ð´", "ðµ", "ð¼", "ð½", "ð¿", "ð", "ð", "ð", "ð³", "ð´",
   "ðµ", "ð¶", "ð·", "ð¸", "ð¹", "ðº", "ð½", "ð¿", "ð", "ð«", "ð­",
   "ð°", "ð±", "ð²", "ð³", "ð´", "ðµ", "ð·", "ð", "ð", "ð", "ð¢",
   "ð£", "ð¤", "ð¥", "ð§", "ð¨", "ð©", "ðª", "ð«", "ð ¯", "ð °", "ð ±",
   "ð ²", "ð ³", "ð ´", "ð µ", "ð ¶", "ð ·", "ð ¹", "ð º", "ð¤»", "ð¤¼", "ð¤¾",
   "ð¥", "ð§", "ð§", "ð§", "ð§", "ð§", "ð§", "ð§ ", "ð¨", "ð¨", "ð¨",
   "ð¨", "ð¨", "ð¨", "ð¨", "ð¨", "ð¨", "ð¨", "ð¨³", "ð¨´", "ð¨µ", "ð¨¶",
   "ð¨·", "ð¨¸", "ð¨»", "ð¨¼", "ð¨½", "ð¨¾", "ð©", "ð©", "ð©", "ð©", "ð©",
   "ð©", "ð©", "ð©", "ð©", "ð©", "ðª", "ðª", "ðª", "ðª", "ðª", "ðª",
   "ðª", "ðª", "ðª", "ðª", "ðª", "ðª", "ðª", "ðª", "ðª", "ð°°", "ð°±",
   "ð°²", "ð°³", "ð°´", "ð°µ", "ð°¶", "ð°¸", "ð°¹", "ð°º", "ð°»", "ð°¼", "ð°½",
   "ð°¿", "ð²", "ð²", "ð²", "ð²", "ð²", "ð²", "ð²", "ð²", "ð²", "ð²",
   "ð²", "ð²", "ð²", "ð²", "ð² ", "ð²¡", "ð²¢", "ð²£", "ð²¤", "ð²¥", "ð²¦",
   "ð²§", "ð²ª", "ð²«", "ð²¬", "ð²­", "ð²®", "ð²¯", "ð²°", "ð²²", "ð²³", "ð²µ",
   "ð²¶", "ð´±", "ð´²", "ð´³", "ð´´", "ð´µ", "ð´¶", "ð´º", "ð´¼", "ð´½", "ð´¿",
   "ðµ", "ðµ", "ðµ", "ðµ", "ðµ", "ðµ", "ðµ", "ð¶", "ð¶", "ð¶", "ð¶",
   "ð»³", "ð»´", "ð°", "ð±", "ð²", "ð³", "ð´", "ðµ", "ð¶", "ð·", "ð¸",
   "ð«°", "ð«±", "ð«²", "ð«³", "ð«´", "ð¬°", "ð¬±", "ð¬²", "ð¬³", "ð¬´", "ð¬µ",
   "ð¬¶", "ð­", "ð­", "ð­", "ð­", "ð½", "ð¾", "ð¾", "ð¾", "ð¾", "ð¾",
   "ð¾", "ð¾", "ð¾", "ð¾", "ð¾", "ð¾", "ð¾", "ð¾", "ð¾", "ð¾", "ð¾",
   "ð¾", "ð¿ ", "ð¿¡", "ð¿£", "ð¿¤", "ð¿°", "ð¿±", "ð¿²", "ð¿³", "ð¿µ", "ð¿¶",
   "ð¿·", "ð¿¸", "ð¿¹", "ð¿º", "ð¿»", "ð¿½", "ð¿¾", "ð²", "ð²", "ð² ", "ð²¡",
   "ð²¢", "ð²£", "ð¼", "ð¼", "ð¼", "ð¼", "ð¼", "ð¼", "ð¼", "ð¼", "ð¼",
   "ð¼", "ð¼", "ð¼", "ð¼", "ð¼", "ð¼", "ð¼", "ð¼", "ð¼", "ð¼", "ð¼",
   "ð¼", "ð¼", "ð¼", "ð¼", "ð¼", "ð¼", "ð¼", "ð¼", "ð¼", "ð¼", "ð¼",
   "ð¼", "ð¼ ", "ð¼¡", "ð¼¢", "ð¼£", "ð¼¤", "ð¼¥", "ð¼¦", "ð¼§", "ð¼¨", "ð¼©",
   "ð¼ª", "ð¼«", "ð¼¬", "ð¼­", "ð¼°", "ð¼±", "ð¼²", "ð¼³", "ð¼´", "ð¼µ", "ð¼¶",
   "ð¼·", "ð¼¸", "ð¼¹", "ð¼º", "ð¼»", "ð¼¼", "ð¼½", "ð¼¾", "ð¼¿", "ð½", "ð½",
   "ð½", "ð½", "ð½", "ð½", "ð½", "ð§", "ð¨", "ð©", "ð³", "ð´", "ðµ",
   "ð¶", "ð·", "ð¸", "ð¹", "ðº", "ð»", "ð¼", "ð½", "ð¾", "ð¿", "ð",
   "ð", "ð", "ð", "ð", "ð", "ð", "ð", "ð", "ð", "ðª", "ð«",
   "ð¬", "ð­", "ð", "ð", "ð", "ð¨", "ð¨", "ð¨", "ð¨", "ð¨", "ð¨",
   "ð¨", "ð¨", "ð¨", "ð¨", "ð¨", "ð¨", "ð¨", "ð¨", "ð¨", "ð¨", "ð¨",
   "ð¨", "ð¨", "ð¨", "ð¨", "ð¨", "ð¨", "ð¨", "ð¨", "ð¨", "ð¨", "ð¨",
   "ð¨", "ð¨", "ð¨", "ð¨", "ð¨ ", "ð¨¡", "ð¨¢", "ð¨£", "ð¨¤", "ð¨¥", "ð¨¦",
   "ð¨§", "ð¨¨", "ð¨©", "ð¨ª", "ð¨«", "ð¨¬", "ð¨­", "ð¨®", "ð¨¯", "ð¨°", "ð¨±",
   "ð¨²", "ð¨³", "ð¨´", "ð¨µ", "ð¨¶", "ð¨»", "ð¨¼", "ð¨½", "ð¨¾", "ð¨¿", "ð©",
   "ð©", "ð©", "ð©", "ð©", "ð©", "ð©", "ð©", "ð©", "ð©", "ð©", "ð©",
   "ð©", "ð©", "ð©", "ð©", "ð©", "ð©", "ð©", "ð©", "ð©", "ð©", "ð©",
   "ð©", "ð©", "ð©", "ð©", "ð©", "ð©", "ð©", "ð©", "ð©", "ð© ", "ð©¡",
   "ð©¢", "ð©£", "ð©¤", "ð©¥", "ð©¦", "ð©§", "ð©¨", "ð©©", "ð©ª", "ð©«", "ð©¬",
   "ð©µ", "ðª", "ðª", "ðª", "ðª", "ðª", "ðª", "ðª¡", "ðª¢", "ðª£", "ðª¤",
   "ðª¥", "ðª¦", "ðª§", "ðª¨", "ðª©", "ðªª", "ðª«", "ðª¬", "ðª­", "ðª®", "ðª¯",
   "ð", "ð", "ð", "ð", "ð", "ð", "ð", "ð", "ð", "ð", "ð",
   "ð", "ð", "ð", "ð", "ð", "ð", "ð", "ð", "ð", "ð", "ð",
   "ð", "ð", "ð", "ð", "ð", "ð", "ð", "ð ", "ð¡", "ð£", "ð¤",
   "ð¦", "ð§", "ð¨", "ð©", "ðª", "ð°", "ð±", "ð²", "ð³", "ð´", "ðµ",
   "ð¶", "ð·", "ð¸", "ð¹", "ðº", "ð»", "ð¼", "ð½", "ð®", "ð¬", "ð­",
   "ð®", "ð¯", "ð£", "ð£", "ð£", "ð£", "ð£", "ð£", "ð£", "ð¥", "ð¥",
   "ð¥", "ð¥", "ð¥", "ð¥", "ð¥", "ð¥", "ð»", "ð¼", "ð½", "ð¾", "ð¿",
   "ó ", "ó  ", "ó ¡", "ó ¢", "ó £", "ó ¤", "ó ¥", "ó ¦", "ó §", "ó ¨", "ó ©",
   "ó ª", "ó «", "ó ¬", "ó ­", "ó ®", "ó ¯", "ó °", "ó ±", "ó ²", "ó ³", "ó ´",
   "ó µ", "ó ¶", "ó ·", "ó ¸", "ó ¹", "ó º", "ó »", "ó ¼", "ó ½", "ó ¾", "ó ¿",
   "ó ", "ó ", "ó ", "ó ", "ó ", "ó ", "ó ", "ó ", "ó ", "ó ", "ó ",
   "ó ", "ó ", "ó ", "ó ", "ó ", "ó ", "ó ", "ó ", "ó ", "ó ", "ó ",
   "ó ", "ó ", "ó ", "ó ", "ó ", "ó ", "ó ", "ó ", "ó ", "ó ", "ó  ",
   "ó ¡", "ó ¢", "ó £", "ó ¤", "ó ¥", "ó ¦", "ó §", "ó ¨", "ó ©", "ó ª", "ó «",
   "ó ¬", "ó ­", "ó ®", "ó ¯", "ó °", "ó ±", "ó ²", "ó ³", "ó ´", "ó µ", "ó ¶",
   "ó ·", "ó ¸", "ó ¹", "ó º", "ó »", "ó ¼", "ó ½", "ó ¾", "ó ¿", "ó ", "ó ",
   "ó ", "ó ", "ó ", "ó ", "ó ", "ó ", "ó ", "ó ", "ó ", "ó ", "ó ",
   "ó ", "ó ", "ó ", "ó ", "ó ", "ó ", "ó ", "ó ", "ó ", "ó ", "ó ",
   "ó ", "ó ", "ó ", "ó ", "ó ", "ó ", "ó ", "ó ", "ó  ", "ó ¡", "ó ¢",
   "ó £", "ó ¤", "ó ¥", "ó ¦", "ó §", "ó ¨", "ó ©", "ó ª", "ó «", "ó ¬", "ó ­",
   "ó ®", "ó ¯", "ó °", "ó ±", "ó ²", "ó ³", "ó ´", "ó µ", "ó ¶", "ó ·", "ó ¸",
   "ó ¹", "ó º", "ó »", "ó ¼", "ó ½", "ó ¾", "ó ¿", "ó ", "ó ", "ó ", "ó ",
   "ó ", "ó ", "ó ", "ó ", "ó ", "ó ", "ó ", "ó ", "ó ", "ó ", "ó ",
   "ó ", "ó ", "ó ", "ó ", "ó ", "ó ", "ó ", "ó ", "ó ", "ó ", "ó ",
   "ó ", "ó ", "ó ", "ó ", "ó ", "ó ", "ó  ", "ó ¡", "ó ¢", "ó £", "ó ¤",
   "ó ¥", "ó ¦", "ó §", "ó ¨", "ó ©", "ó ª", "ó «", "ó ¬", "ó ­", "ó ®", "ó ¯",
   "ó °", "ó ±", "ó ²", "ó ³", "ó ´", "ó µ", "ó ¶", "ó ·", "ó ¸", "ó ¹", "ó º",
   "ó »", "ó ¼", "ó ½", "ó ¾", "ó ¿", "ó ", "ó ", "ó ", "ó ", "ó ", "ó ",
   "ó ", "ó ", "ó ", "ó ", "ó ", "ó ", "ó ", "ó ", "ó ", "ó ", "ó ",
   "ó ", "ó ", "ó ", "ó ", "ó ", "ó ", "ó ", "ó ", "ó ", "ó ", "ó ",
   "ó ", "ó ", "ó ", "ó ", "ó  ", "ó ¡", "ó ¢", "ó £", "ó ¤", "ó ¥", "ó ¦",
   "ó §", "ó ¨", "ó ©", "ó ª", "ó «", "ó ¬", "ó ­", "ó ®", "ó ¯", "ó °", "ó ±",
   "ó ²", "ó ³", "ó ´", "ó µ", "ó ¶", "ó ·", "ó ¸", "ó ¹", "ó º", "ó »", "ó ¼",
   "ó ½", "ó ¾", "ó ¿", "ó ", "ó ", "ó ", "ó ", "ó ", "ó ", "ó ", "ó ",
   "ó ", "ó ", "ó ", "ó ", "ó ", "ó ", "ó ", "ó ", "ó ", "ó ", "ó ",
   "ó ", "ó ", "ó ", "ó ", "ó ", "ó ", "ó ", "ó ", "ó ", "ó ", "ó ",
   "ó ", "ó ", "ó  ", "ó ¡", "ó ¢", "ó £", "ó ¤", "ó ¥", "ó ¦", "ó §", "ó ¨",
   "ó ©", "ó ª", "ó «", "ó ¬", "ó ­", "ó ®", "ó ¯"
  }

\* Latin1[b - 127]: the character that stands for the byte b of a UTF-8
\* sequence, 128 =< b =< 255
Latin1 ==
  <<
   "", "", "", "", "", "", "", "", "", "", "", "", "", "", "", "", "", "",
   "", "", "", "", "", "", "", "", "", "", "", "", "", "", " ", "¡", "¢", "£",
   "¤", "¥", "¦", "§", "¨", "©", "ª", "«", "¬", "­", "®", "¯", "°", "±", "²", "³", "´", "µ",
   "¶", "·", "¸", "¹", "º", "»", "¼", "½", "¾", "¿", "À", "Á", "Â", "Ã", "Ä", "Å", "Æ", "Ç",
   "È", "É", "Ê", "Ë", "Ì", "Í", "Î", "Ï", "Ð", "Ñ", "Ò", "Ó", "Ô", "Õ", "Ö", "×", "Ø", "Ù",
   "Ú", "Û", "Ü", "Ý", "Þ", "ß", "à", "á", "â", "ã", "ä", "å", "æ", "ç", "è", "é", "ê", "ë",
   "ì", "í", "î", "ï", "ð", "ñ", "ò", "ó", "ô", "õ", "ö", "÷", "ø", "ù", "ú", "û", "ü", "ý",
   "þ", "ÿ"
  >>

\* The ranges of code points outside ASCII that str.isalpha() holds for
AlphaRanges ==
  {
   <<170, 170>>, <<181, 181>>, <<186, 186>>, <<192, 214>>, <<216, 246>>, <<248, 705>>,
   <<710, 721>>, <<736, 740>>, <<748, 748>>, <<750, 750>>, <<880, 884>>, <<886, 887>>,
   <<890, 893>>, <<895, 895>>, <<902, 902>>, <<904, 906>>, <<908, 908>>, <<910, 929>>,
   <<931, 1013>>, <<1015, 1153>>, <<1162, 1327>>, <<1329, 1366>>, <<1369, 1369>>,
   <<1376, 1416>>, <<1488, 1514>>, <<1519, 1522>>, <<1568, 1610>>, <<1646, 1647>>,
   <<1649, 1747>>, <<1749, 1749>>, <<1765, 1766>>, <<1774, 1775>>, <<1786, 1788>>,
   <<1791, 1791>>, <<1808, 1808>>, <<1810, 1839>>, <<1869, 1957>>, <<1969, 1969>>,
   <<1994, 2026>>, <<2036, 2037>>, <<2042, 2042>>, <<2048, 2069>>, <<2074, 2074>>,
   <<2084, 2084>>, <<2088, 2088>>, <<2112, 2136>>, <<2144, 2154>>, <<2160, 2183>>,
   <<2185, 2190>>, <<2208, 2249>>, <<2308, 2361>>, <<2365, 2365>>, <<2384, 2384>>,
   <<2392, 2401>>, <<2417, 2432>>, <<2437, 2444>>, <<2447, 2448>>, <<2451, 2472>>,
   <<2474, 2480>>, <<2482, 2482>>, <<2486, 2489>>, <<2493, 2493>>, <<2510, 2510>>,
   <<2524, 2525>>, <<2527, 2529>>, <<2544, 2545>>, <<2556, 2556>>, <<2565, 2570>>,
   <<2575, 2576>>, <<2579, 2600>>, <<2602, 2608>>, <<2610, 2611>>, <<2613, 2614>>,
   <<2616, 2617>>, <<2649, 2652>>, <<2654, 2654>>, <<2674, 2676>>, <<2693, 2701>>,
   <<2703, 2705>>, <<2707, 2728>>, <<2730, 2736>>, <<2738, 2739>>, <<2741, 2745>>,
   <<2749, 2749>>, <<2768, 2768>>, <<2784, 2785>>, <<2809, 2809>>, <<2821, 2828>>,
   <<2831, 2832>>, <<2835, 2856>>, <<2858, 2864>>, <<2866, 2867>>, <<2869, 2873>>,
   <<2877, 2877>>, <<2908, 2909>>, <<2911, 2913>>, <<2929, 2929>>, <<2947, 2947>>,
   <<2949, 2954>>, <<2958, 2960>>, <<2962, 2965>>, <<2969, 2970>>, <<2972, 2972>>,
   <<2974, 2975>>, <<2979, 2980>>, <<2984, 2986>>, <<2990, 3001>>, <<3024, 3024>>,
   <<3077, 3084>>, <<3086, 3088>>, <<3090, 3112>>, <<3114, 3129>>, <<3133, 3133>>,
   <<3160, 3162>>, <<3165, 3165>>, <<3168, 3169>>, <<3200, 3200>>, <<3205, 3212>>,
   <<3214, 3216>>, <<3218, 3240>>, <<3242, 3251>>, <<3253, 3257>>, <<3261, 3261>>,
   <<3293, 3294>>, <<3296, 3297>>, <<3313, 3314>>, <<3332, 3340>>, <<3342, 3344>>,
   <<3346, 3386>>, <<3389, 3389>>, <<3406, 3406>>, <<3412, 3414>>, <<3423, 3425>>,
   <<3450, 3455>>, <<3461, 3478>>, <<3482, 3505>>, <<3507, 3515>>, <<3517, 3517>>,
   <<3520, 3526>>, <<3585, 3632>>, <<3634, 3635>>, <<3648, 3654>>, <<3713, 3714>>,
   <<3716, 3716>>, <<3718, 3722>>, <<3724, 3747>>, <<3749, 3749>>, <<3751, 3760>>,
   <<3762, 3763>>, <<3773, 3773>>, <<3776, 3780>>, <<3782, 3782>>, <<3804, 3807>>,
   <<3840, 3840>>, <<3904, 3911>>, <<3913, 3948>>, <<3976, 3980>>, <<4096, 4138>>,
   <<4159, 4159>>, <<4176, 4181>>, <<4186, 4189>>, <<4193, 4193>>, <<4197, 4198>>,
   <<4206, 4208>>, <<4213, 4225>>, <<4238, 4238>>, <<4256, 4293>>, <<4295, 4295>>,
   <<4301, 4301>>, <<4304, 4346>>, <<4348, 4680>>, <<4682, 4685>>, <<4688, 4694>>,
   <<4696, 4696>>, <<4698, 4701>>, <<4704, 4744>>, <<4746, 4749>>, <<4752, 4784>>,
   <<4786, 4789>>, <<4792, 4798>>, <<4800, 4800>>, <<4802, 4805>>, <<4808, 4822>>,
   <<4824, 4880>>, <<4882, 4885>>, <<4888, 4954>>, <<4992, 5007>>, <<5024, 5109>>,
   <<5112, 5117>>, <<5121, 5740>>, <<5743, 5759>>, <<5761, 5786>>, <<5792, 5866>>,
   <<5873, 5880>>, <<5888, 5905>>, <<5919, 5937>>, <<5952, 5969>>, <<5984, 5996>>,
   <<5998, 6000>>, <<6016, 6067>>, <<6103, 6103>>, <<6108, 6108>>, <<6176, 6264>>,
   <<6272, 6276>>, <<6279, 6312>>, <<6314, 6314>>, <<6320, 6389>>, <<6400, 6430>>,
   <<6480, 6509>>, <<6512, 6516>>, <<6528, 6571>>, <<6576, 6601>>, <<6656, 6678>>,
   <<6688, 6740>>, <<6823, 6823>>, <<6917, 6963>>, <<6981, 6988>>, <<7043, 7072>>,
   <<7086, 7087>>, <<7098, 7141>>, <<7168, 7203>>, <<7245, 7247>>, <<7258, 7293>>,
   <<7296, 7304>>, <<7312, 7354>>, <<7357, 7359>>, <<7401, 7404>>, <<7406, 7411>>,
   <<7413, 7414>>, <<7418, 7418>>, <<7424, 7615>>, <<7680, 7957>>, <<7960, 7965>>,
   <<7968, 8005>>, <<8008, 8013>>, <<8016, 8023>>, <<8025, 8025>>, <<8027, 8027>>,
   <<8029, 8029>>, <<8031, 8061>>, <<8064, 8116>>, <<8118, 8124>>, <<8126, 8126>>,
   <<8130, 8132>>, <<8134, 8140>>, <<8144, 8147>>, <<8150, 8155>>, <<8160, 8172>>,
   <<8178, 8180>>, <<8182, 8188>>, <<8305, 8305>>, <<8319, 8319>>, <<8336, 8348>>,
   <<8450, 8450>>, <<8455, 8455>>, <<8458, 8467>>, <<8469, 8469>>, <<8473, 8477>>,
   <<8484, 8484>>, <<8486, 8486>>, <<8488, 8488>>, <<8490, 8493>>, <<8495, 8505>>,
   <<8508, 8511>>, <<8517, 8521>>, <<8526, 8526>>, <<8579, 8580>>, <<11264, 11492>>,
   <<11499, 11502>>, <<11506, 11507>>, <<11520, 11557>>, <<11559, 11559>>, <<11565, 11565>>,
   <<11568, 11623>>, <<11631, 11631>>, <<11648, 11670>>, <<11680, 11686>>, <<11688, 11694>>,
   <<11696, 11702>>, <<11704, 11710>>, <<11712, 11718>>, <<11720, 11726>>, <<11728, 11734>>,
   <<11736, 11742>>, <<11823, 11823>>, <<12293, 12294>>, <<12337, 12341>>, <<12347, 12348>>,
   <<12353, 12438>>, <<12445, 12447>>, <<12449, 12538>>, <<12540, 12543>>, <<12549, 12591>>,
   <<12593, 12686>>, <<12704, 12735>>, <<12784, 12799>>, <<13312, 19903>>, <<19968, 42124>>,
   <<42192, 42237>>, <<42240, 42508>>, <<42512, 42527>>, <<42538, 42539>>, <<42560, 42606>>,
   <<42623, 42653>>, <<42656, 42725>>, <<42775, 42783>>, <<42786, 42888>>, <<42891, 42954>>,
   <<42960, 42961>>, <<42963, 42963>>, <<42965, 42969>>, <<42994, 43009>>, <<43011, 43013>>,
   <<43015, 43018>>, <<43020, 43042>>, <<43072, 43123>>, <<43138, 43187>>, <<43250, 43255>>,
   <<43259, 43259>>, <<43261, 43262>>, <<43274, 43301>>, <<43312, 43334>>, <<43360, 43388>>,
   <<43396, 43442>>, <<43471, 43471>>, <<43488, 43492>>, <<43494, 43503>>, <<43514, 43518>>,
   <<43520, 43560>>, <<43584, 43586>>, <<43588, 43595>>, <<43616, 43638>>, <<43642, 43642>>,
   <<43646, 43695>>, <<43697, 43697>>, <<43701, 43702>>, <<43705, 43709>>, <<43712, 43712>>,
   <<43714, 43714>>, <<43739, 43741>>, <<43744, 43754>>, <<43762, 43764>>, <<43777, 43782>>,
   <<43785, 43790>>, <<43793, 43798>>, <<43808, 43814>>, <<43816, 43822>>, <<43824, 43866>>,
   <<43868, 43881>>, <<43888, 44002>>, <<44032, 55203>>, <<55216, 55238>>, <<55243, 55291>>,
   <<63744, 64109>>, <<64112, 64217>>, <<64256, 64262>>, <<64275, 64279>>, <<64285, 64285>>,
   <<64287, 64296>>, <<64298, 64310>>, <<64312, 64316>>, <<64318, 64318>>, <<64320, 64321>>,
   <<64323, 64324>>, <<64326, 64433>>, <<64467, 64829>>, <<64848, 64911>>, <<64914, 64967>>,
   <<65008, 65019>>, <<65136, 65140>>, <<65142, 65276>>, <<65313, 65338>>, <<65345, 65370>>,
   <<65382, 65470>>, <<65474, 65479>>, <<65482, 65487>>, <<65490, 65495>>, <<65498, 65500>>,
   <<65536, 65547>>, <<65549, 65574>>, <<65576, 65594>>, <<65596, 65597>>, <<65599, 65613>>,
   <<65616, 65629>>, <<65664, 65786>>, <<66176, 66204>>, <<66208, 66256>>, <<66304, 66335>>,
   <<66349, 66368>>, <<66370, 66377>>, <<66384, 66421>>, <<66432, 66461>>, <<66464, 66499>>,
   <<66504, 66511>>, <<66560, 66717>>, <<66736, 66771>>, <<66776, 66811>>, <<66816, 66855>>,
   <<66864, 66915>>, <<66928, 66938>>, <<66940, 66954>>, <<66956, 66962>>, <<66964, 66965>>,
   <<66967, 66977>>, <<66979, 66993>>, <<66995, 67001>>, <<67003, 67004>>, <<67072, 67382>>,
   <<67392, 67413>>, <<67424, 67431>>, <<67456, 67461>>, <<67463, 67504>>, <<67506, 67514>>,
   <<67584, 67589>>, <<67592, 67592>>, <<67594, 67637>>, <<67639, 67640>>, <<67644, 67644>>,
   <<67647, 67669>>, <<67680, 67702>>, <<67712, 67742>>, <<67808, 67826>>, <<67828, 67829>>,
   <<67840, 67861>>, <<67872, 67897>>, <<67968, 68023>>, <<68030, 68031>>, <<68096, 68096>>,
   <<68112, 68115>>, <<68117, 68119>>, <<68121, 68149>>, <<68192, 68220>>, <<68224, 68252>>,
   <<68288, 68295>>, <<68297, 68324>>, <<68352, 68405>>, <<68416, 68437>>, <<68448, 68466>>,
   <<68480, 68497>>, <<68608, 68680>>, <<68736, 68786>>, <<68800, 68850>>, <<68864, 68899>>,
   <<69248, 69289>>, <<69296, 69297>>, <<69376, 69404>>, <<69415, 69415>>, <<69424, 69445>>,
   <<69488, 69505>>, <<69552, 69572>>, <<69600, 69622>>, <<69635, 69687>>, <<69745, 69746>>,
   <<69749, 69749>>, <<69763, 69807>>, <<69840, 69864>>, <<69891, 69926>>, <<69956, 69956>>,
   <<69959, 69959>>, <<69968, 70002>>, <<70006, 70006>>, <<70019, 70066>>, <<70081, 70084>>,
   <<70106, 70106>>, <<70108, 70108>>, <<70144, 70161>>, <<70163, 70187>>, <<70272, 70278>>,
   <<70280, 70280>>, <<70282, 70285>>, <<70287, 70301>>, <<70303, 70312>>, <<70320, 70366>>,
   <<70405, 70412>>, <<70415, 70416>>, <<70419, 70440>>, <<70442, 70448>>, <<70450, 70451>>,
   <<70453, 70457>>, <<70461, 70461>>, <<70480, 70480>>, <<70493, 70497>>, <<70656, 70708>>,
   <<70727, 70730>>, <<70751, 70753>>, <<70784, 70831>>, <<70852, 70853>>, <<70855, 70855>>,
   <<71040, 71086>>, <<71128, 71131>>, <<71168, 71215>>, <<71236, 71236>>, <<71296, 71338>>,
   <<71352, 71352>>, <<71424, 71450>>, <<71488, 71494>>, <<71680, 71723>>, <<71840, 71903>>,
   <<71935, 71942>>, <<71945, 71945>>, <<71948, 71955>>, <<71957, 71958>>, <<71960, 71983>>,
   <<71999, 71999>>, <<72001, 72001>>, <<72096, 72103>>, <<72106, 72144>>, <<72161, 72161>>,
   <<72163, 72163>>, <<72192, 72192>>, <<72203, 72242>>, <<72250, 72250>>, <<72272, 72272>>,
   <<72284, 72329>>, <<72349, 72349>>, <<72368, 72440>>, <<72704, 72712>>, <<72714, 72750>>,
   <<72768, 72768>>, <<72818, 72847>>, <<72960, 72966>>, <<72968, 72969>>, <<72971, 73008>>,
   <<73030, 73030>>, <<73056, 73061>>, <<73063, 73064>>, <<73066, 73097>>, <<73112, 73112>>,
   <<73440, 73458>>, <<73648, 73648>>, <<73728, 74649>>, <<74880, 75075>>, <<77712, 77808>>,
   <<77824, 78894>>, <<82944, 83526>>, <<92160, 92728>>, <<92736, 92766>>, <<92784, 92862>>,
   <<92880, 92909>>, <<92928, 92975>>, <<92992, 92995>>, <<93027, 93047>>, <<93053, 93071>>,
   <<93760, 93823>>, <<93952, 94026>>, <<94032, 94032>>, <<94099, 94111>>, <<94176, 94177>>,
   <<94179, 94179>>, <<94208, 100343>>, <<100352, 101589>>, <<101632, 101640>>,
   <<110576, 110579>>, <<110581, 110587>>, <<110589, 110590>>, <<110592, 110882>>,
   <<110928, 110930>>, <<110948, 110951>>, <<110960, 111355>>, <<113664, 113770>>,
   <<113776, 113788>>, <<113792, 113800>>, <<113808, 113817>>, <<119808, 119892>>,
   <<119894, 119964>>, <<119966, 119967>>, <<119970, 119970>>, <<119973, 119974>>,
   <<119977, 119980>>, <<119982, 119993>>, <<119995, 119995>>, <<119997, 120003>>,
   <<120005, 120069>>, <<120071, 120074>>, <<120077, 120084>>, <<120086, 120092>>,
   <<120094, 120121>>, <<120123, 120126>>, <<120128, 120132>>, <<120134, 120134>>,
   <<120138, 120144>>, <<120146, 120485>>, <<120488, 120512>>, <<120514, 120538>>,
   <<120540, 120570>>, <<120572, 120596>>, <<120598, 120628>>, <<120630, 120654>>,
   <<120656, 120686>>, <<120688, 120712>>, <<120714, 120744>>, <<120746, 120770>>,
   <<120772, 120779>>, <<122624, 122654>>, <<123136, 123180>>, <<123191, 123197>>,
   <<123214, 123214>>, <<123536, 123565>>, <<123584, 123627>>, <<124896, 124902>>,
   <<124904, 124907>>, <<124909, 124910>>, <<124912, 124926>>, <<124928, 125124>>,
   <<125184, 125251>>, <<125259, 125259>>, <<126464, 126467>>, <<126469, 126495>>,
   <<126497, 126498>>, <<126500, 126500>>, <<126503, 126503>>, <<126505, 126514>>,
   <<126516, 126519>>, <<126521, 126521>>, <<126523, 126523>>, <<126530, 126530>>,
   <<126535, 126535>>, <<126537, 126537>>, <<126539, 126539>>, <<126541, 126543>>,
   <<126545, 126546>>, <<126548, 126548>>, <<126551, 126551>>, <<126553, 126553>>,
   <<126555, 126555>>, <<126557, 126557>>, <<126559, 126559>>, <<126561, 126562>>,
   <<126564, 126564>>, <<126567, 126570>>, <<126572, 126578>>, <<126580, 126583>>,
   <<126585, 126588>>, <<126590, 126590>>, <<126592, 126601>>, <<126603, 126619>>,
   <<126625, 126627>>, <<126629, 126633>>, <<126635, 126651>>, <<131072, 173791>>,
   <<173824, 177976>>, <<177984, 178205>>, <<178208, 183969>>, <<183984, 191456>>,
   <<194560, 195101>>, <<196608, 201546>>
  }

\* The characters str.isdigit() holds for that are not decimal digits
\* (superscripts, circled digits, ...): int() and float() refuse them
OtherDigits ==
  {
   "Â²", "Â³", "Â¹", "á©", "áª", "á«", "á¬", "á­", "á®", "á¯", "á°", "á±", "á§",
   "â°", "â´", "âµ", "â¶", "â·", "â¸", "â¹", "â", "â", "â", "â", "â", "â",
   "â", "â", "â", "â", "â ", "â¡", "â¢", "â£", "â¤", "â¥", "â¦", "â§", "â¨",
   "â´", "âµ", "â¶", "â·", "â¸", "â¹", "âº", "â»", "â¼", "â", "â", "â", "â",
   "â", "â", "â", "â", "â", "âª", "âµ", "â¶", "â·", "â¸", "â¹", "âº", "â»",
   "â¼", "â½", "â¿", "â¶", "â·", "â¸", "â¹", "âº", "â»", "â¼", "â½", "â¾", "â",
   "â", "â", "â", "â", "â", "â", "â", "â", "â", "â", "â", "â", "â",
   "â", "â", "â", "â", "ð©", "ð©", "ð©", "ð©", "ð¹ ", "ð¹¡", "ð¹¢", "ð¹£",
   "ð¹¤", "ð¹¥", "ð¹¦", "ð¹§", "ð¹¨", "ð", "ð", "ð", "ð", "ð", "ð",
   "ð", "ð", "ð", "ð", "ð", "ð", "ð", "ð", "ð", "ð", "ð",
   "ð", "ð", "ð"
  }

\* \d
Digits == UNION {DecimalDigits[v] : v \in 1..10}
IsDigit(c) == c \in Digits

\* [A-Z], [a-z], [A-Za-z]
IsUpper(c) == c \in Uppers
IsLower(c) == c \in Lowers
IsAlpha(c) == IsUpper(c) \/ IsLower(c)

\* \s, and the characters str.strip() removes
IsSpace(c) == c \in Whitespace

\* int(c) of an ASCII digit, and the other case of an ASCII letter
DigitValOf == [c \in {DigitSeq[i] : i \in 1..10} |-> (CHOOSE i \in 1..10 : DigitSeq[i] = c) - 1]
LowerOf == [c \in Uppers |-> LowerSeq[CHOOSE i \in 1..Len(UpperSeq) : UpperSeq[i] = c]]
UpperOf == [c \in Lowers |-> UpperSeq[CHOOSE i \in 1..Len(LowerSeq) : LowerSeq[i] = c]]

\* The value of a decimal digit
DigitVal(c) ==
  IF c \in DOMAIN DigitValOf THEN DigitValOf[c]
  ELSE (CHOOSE v \in 1..10 : c \in DecimalDigits[v]) - 1

\* The mapping of c in a table of case mappings, c itself when it has none
CaseMapped(table, c) ==
  IF \E p \in table : p[1] = c THEN (CHOOSE p \in table : p[1] = c)[2] ELSE <<c>>

\* str.lower(), str.upper() and str.title() of one character: one to three
\* characters
LowerChar(c) ==
  IF IsUpper(c) THEN <<LowerOf[c]>>
  ELSE IF c \in AsciiPrintable THEN <<c>>
  ELSE CaseMapped(ToLowerFull, c)
UpperChar(c) ==
  IF IsLower(c) THEN <<UpperOf[c]>>
  ELSE IF c \in AsciiPrintable THEN <<c>>
  ELSE CaseMapped(ToUpperFull, c)
TitleChar(c) ==
  IF IsLower(c) THEN <<UpperOf[c]>>
  ELSE IF c \in AsciiPrintable THEN <<c>>
  ELSE CaseMapped(ToTitleFull, c)

\* A character that has a case, and one that is skipped around a sigma
IsCased(c) == IsAlpha(c) \/ (c \notin AsciiPrintable /\ c \in CasedOther)
IsCaseIgnorable(c) == c \in CaseIgnorable

\* The capital sigma and its two lower-case forms
CapitalSigma == "Î£"
SmallSigma == "Ï"
FinalSigma == "Ï"

\* The capital sigma at s[i] ends a word: a cased character stands before
\* it, and none after it, case-ignorable characters skipped
IsFinalSigma(s, i) ==
  LET before == {j \in 1..(i - 1) : ~IsCaseIgnorable(s[j])}
      after == {j \in (i + 1)..Len(s) : ~IsCaseIgnorable(s[j])}
  IN  /\ before # {}
      /\ IsCased(s[CHOOSE j \in before : \A k \in before : k <= j])
      /\ \/ after = {}
         \/ ~IsCased(s[CHOOSE j \in after : \A k \in after : j <= k])

\* The lower case of the character at s[i]
LowerAt(s, i) ==
  IF s[i] = CapitalSigma
  THEN IF IsFinalSigma(s, i) THEN <<FinalSigma>> ELSE <<SmallSigma>>
  ELSE LowerChar(s[i])

\* The texts of a sequence joined, from the i-th on
RECURSIVE Join(_, _)
Join(parts, i) == IF i > Len(parts) THEN <<>> ELSE parts[i] \o Join(parts, i + 1)

\* str.lower(), str.upper()
lower(s) == Join([i \in 1..Len(s) |-> LowerAt(s, i)], 1)
upper(s) == Join([i \in 1..Len(s) |-> UpperChar(s[i])], 1)

\* str.title(): a character after a cased character in lower case, any
\* other in title case
title(s) ==
  Join([i \in 1..Len(s) |->
          IF i > 1 /\ IsCased(s[i - 1]) THEN LowerAt(s, i) ELSE TitleChar(s[i])], 1)

\* `needle in hay` for two str values
Contains(needle, hay) ==
  \E o \in 0..(Len(hay) - Len(needle)) :
     \A j \in 1..Len(needle) : hay[o + j] = needle[j]

\* str.replace(old, new) for one-character old and new
replace(s, old, new) == [i \in 1..Len(s) |-> IF s[i] = old THEN new ELSE s[i]]

\* str.strip(): leading and trailing white space removed
RECURSIVE lstrip(_)
lstrip(s) == IF s # <<>> /\ IsSpace(s[1]) THEN lstrip(Tail(s)) ELSE s
RECURSIVE rstrip(_)
rstrip(s) == IF s # <<>> /\ IsSpace(s[Len(s)]) THEN rstrip(SubSeq(s, 1, Len(s) - 1)) ELSE s
strip(s) == rstrip(lstrip(s))

AllDigits(s, a, b) == \A i \in a..b : IsDigit(s[i])
AllAlpha(s, a, b) == \A i \in a..b : IsAlpha(s[i])

\* int() of a run of decimal digits
RECURSIVE NumVal(_)
NumVal(s) == IF s = <<>> THEN 0 ELSE 10 * NumVal(SubSeq(s, 1, Len(s) - 1)) + DigitVal(s[Len(s)])

(***************************************************************************)
(* The two regular expressions of is_month_column                          *)
(***************************************************************************)
\* re.fullmatch(r'([A-Za-z]{3,9})(\d{2,4})', s): the lengths a of group 1
\* for which s is a letters followed by 2 to 4 digits (at most one)
CompactSplits(s) ==
  {a \in 3..9 : /\ a < Len(s)
                /\ Len(s) - a \in 2..4
                /\ AllAlpha(s, 1, a)
                /\ AllDigits(s, a + 1, Len(s))}
compact_match(s) == CompactSplits(s) # {}

\* [-/\s]
IsDateSep(c) == c \in {"-", "/"} \/ IsSpace(c)

\* re.fullmatch(r'\d{1,2}[-/\s]?(?:\d{1,2}|[A-Za-z]{3,9})[-/\s]?\d{2,4}', s)
full_date_match(s) ==
  \E a \in 1..2, p \in 0..1, b \in 1..9, q \in 0..1, c \in 2..4 :
     /\ a + p + b + q + c = Len(s)
     /\ AllDigits(s, 1, a)
     /\ p = 1 => IsDateSep(s[a + 1])
     /\ \/ b \in 1..2 /\ AllDigits(s, a + p + 1, a + p + b)
        \/ b \in 3..9 /\ AllAlpha(s, a + p + 1, a + p + b)
     /\ q = 1 => IsDateSep(s[a + p + b + 1])
     /\ AllDigits(s, a + p + b + q + 1, Len(s))

(***************************************************************************)
(* pd.to_datetime on a str: the date parser. pandas hands a text that is   *)
(* not in ISO 8601 form to dateutil's parser: the text is split into       *)
(* tokens (_timelex), the tokens are read from left to right               *)
(* (parser._parse), the numbers collected are given their roles (_ymd),    *)
(* and pandas builds the Timestamp from what was read.                     *)
(***************************************************************************)
\* The characters of a word written as a TLA+ string
Chars(w) == [i \in 1..Len(w) |-> SubSeq(w, i, i)]

\* The byte a character of Latin1 stands for
ByteOf(ch) == 127 + (CHOOSE k \in 1..Len(Latin1) : Latin1[k] = ch)

\* A character outside ASCII: the bytes of a UTF-8 sequence
IsMultiByte(c) ==
  /\ Len(c) \in 2..4
  /\ \A k \in 1..Len(c) : \E j \in 1..Len(Latin1) : Latin1[j] = SubSeq(c, k, k)

\* The code point a UTF-8 sequence of two to four bytes encodes
CodePoint(c) ==
  LET b(k) == ByteOf(SubSeq(c, k, k))
  IN  IF Len(c) = 2 THEN (b(1) - 192) * 64 + (b(2) - 128)
      ELSE IF Len(c) = 3 THEN (b(1) - 224) * 4096 + (b(2) - 128) * 64 + (b(3) - 128)
      ELSE (b(1) - 240) * 262144 + (b(2) - 128) * 4096 + (b(3) - 128) * 64 + (b(4) - 128)

\* _timelex.isword, isnum, isspace: str.isalpha(), str.isdigit() and
\* str.isspace() of one character
isword(c) ==
  \/ IsAlpha(c)
  \/ /\ IsMultiByte(c)
     /\ \E cp \in {CodePoint(c)} : \E r \in AlphaRanges : r[1] <= cp /\ cp <= r[2]
isnum(c) == IsDigit(c) \/ c \in OtherDigits
isspace(c) == IsSpace(c)

\* The first position from i on that is not among the positions taken,
\* one past the end of s when there is none
run_end(s, i, taken) ==
  IF \A j \in i..Len(s) : j \in taken THEN Len(s) + 1
  ELSE CHOOSE j \in i..Len(s) : j \notin taken /\ \A k \in i..(j - 1) : k \in taken

dot_or_word(c) == c = "." \/ isword(c)
dot_or_num(c) == c = "." \/ isnum(c)

\* _timelex.get_token, the loop over the characters: the token read from
\* s[i] on, the state it was read in (the empty string for None), whether
\* letters were seen, and the position of the first character not taken
\* (the character the code pushes back on charstack). The characters that
\* the loop appends without leaving its state are taken as one run.
RECURSIVE get_token(_, _, _, _, _)
get_token(s, i, token, state, seenletters) ==
  IF i > Len(s)
  THEN [token |-> token, state |-> state, seenletters |-> seenletters, next |-> i]
  ELSE
    LET c == s[i]
        emit(seen) == [token |-> token, state |-> state, seenletters |-> seen, next |-> i]
        more(st, seen) == get_token(s, i + 1, Append(token, c), st, seen)
        run(j, seen) == get_token(s, j, token \o SubSeq(s, i, j - 1), state, seen)
    IN  IF state = "" THEN
          IF isword(c) THEN get_token(s, i + 1, <<c>>, "a", FALSE)
          ELSE IF isnum(c) THEN get_token(s, i + 1, <<c>>, "0", FALSE)
          ELSE IF isspace(c)
          THEN [token |-> <<" ">>, state |-> "", seenletters |-> FALSE, next |-> i + 1]
          ELSE [token |-> <<c>>, state |-> "", seenletters |-> FALSE, next |-> i + 1]
        ELSE IF state = "a" THEN
          IF isword(c) THEN run(run_end(s, i, {j \in i..Len(s) : isword(s[j])}), TRUE)
          ELSE IF c = "." THEN more("a.", TRUE)
          ELSE emit(TRUE)
        ELSE IF state = "0" THEN
          IF isnum(c) THEN run(run_end(s, i, {j \in i..Len(s) : isnum(s[j])}), seenletters)
          ELSE IF c = "." \/ (c = "," /\ Len(token) >= 2) THEN more("0.", seenletters)
          ELSE emit(seenletters)
        ELSE IF state = "a." THEN
          IF c = "." \/ isword(c) THEN run(run_end(s, i, {j \in i..Len(s) : dot_or_word(s[j])}), TRUE)
          ELSE IF isnum(c) /\ token[Len(token)] = "." THEN more("0.", TRUE)
          ELSE emit(TRUE)
        ELSE
          IF c = "." \/ isnum(c) THEN run(run_end(s, i, {j \in i..Len(s) : dot_or_num(s[j])}), seenletters)
          ELSE IF isword(c) /\ token[Len(token)] = "." THEN more("a.", seenletters)
          ELSE emit(seenletters)

\* str.count(ch) and str.find(ch) + 1 (0 when ch is not in t)
count(t, ch) == Cardinality({i \in 1..Len(t) : t[i] = ch})
find(t, ch) ==
  IF \E i \in 1..Len(t) : t[i] = ch
  THEN CHOOSE i \in 1..Len(t) : t[i] = ch /\ \A j \in 1..(i - 1) : t[j] # ch
  ELSE 0

\* _split_decimal.split(token), the empty pieces dropped: the pieces
\* between the dots and commas, and each dot and comma
RECURSIVE split_decimal(_, _, _)
split_decimal(t, i, cur) ==
  LET piece == IF cur = <<>> THEN <<>> ELSE <<cur>>
  IN  IF i > Len(t) THEN piece
      ELSE IF t[i] \in {".", ","}
      THEN piece \o << <<t[i]>> >> \o split_decimal(t, i + 1, <<>>)
      ELSE split_decimal(t, i + 1, Append(cur, t[i]))

\* _timelex.get_token, after the loop: a token with letters and dots, with
\* two dots or with a dot or comma at its end is broken up; the comma of
\* a number is a decimal point
tokens_of(r) ==
  IF /\ r.state \in {"a.", "0."}
     /\ \/ r.seenletters
        \/ count(r.token, ".") > 1
        \/ r.token[Len(r.token)] \in {".", ","}
  THEN split_decimal(r.token, 1, <<>>)
  ELSE IF r.state = "0." /\ count(r.token, ".") = 0
  THEN <<replace(r.token, ",", ".")>>
  ELSE <<r.token>>

\* The tokens of s from position i on
RECURSIVE tokens_from(_, _)
tokens_from(s, i) ==
  IF i > Len(s) THEN <<>>
  ELSE LET r == get_token(s, i, <<>>, "", FALSE)
       IN  tokens_of(r) \o tokens_from(s, r.next)

\* _timelex.split(s): the NUL characters are skipped as they are read
timelex_split(s) == tokens_from(SelectSeq(s, LAMBDA c : c # Nul), 1)

\* None, for a member of the result that the text does not give
None == -1

\* parserinfo.JUMP, WEEKDAYS, MONTHS, HMS, AMPM, UTCZONE and PERTAIN, in
\* lower case as parserinfo._convert keeps them
JUMP ==
  {Chars(" "), Chars("."), Chars(","), Chars(";"), Chars("-"), Chars("/"), Chars("'"),
   Chars("at"), Chars("on"), Chars("and"), Chars("ad"), Chars("m"), Chars("t"),
   Chars("of"), Chars("st"), Chars("nd"), Chars("rd"), Chars("th")}
WEEKDAYS ==
  <<{Chars("mon"), Chars("monday")}, {Chars("tue"), Chars("tuesday")},
    {Chars("wed"), Chars("wednesday")}, {Chars("thu"), Chars("thursday")},
    {Chars("fri"), Chars("friday")}, {Chars("sat"), Chars("saturday")},
    {Chars("sun"), Chars("sunday")}>>
MONTHS ==
  <<{Chars("jan"), Chars("january")}, {Chars("feb"), Chars("february")},
    {Chars("mar"), Chars("march")}, {Chars("apr"), Chars("april")},
    {Chars("may")}, {Chars("jun"), Chars("june")},
    {Chars("jul"), Chars("july")}, {Chars("aug"), Chars("august")},
    {Chars("sep"), Chars("sept"), Chars("september")}, {Chars("oct"), Chars("october")},
    {Chars("nov"), Chars("november")}, {Chars("dec"), Chars("december")}>>
HMS ==
  <<{Chars("h"), Chars("hour"), Chars("hours")},
    {Chars("m"), Chars("minute"), Chars("minutes")},
    {Chars("s"), Chars("second"), Chars("seconds")}>>
AMPM == <<{Chars("am"), Chars("a")}, {Chars("pm"), Chars("p")}>>
UTCZONE == {Chars("UTC"), Chars("GMT"), Chars("Z"), Chars("z")}
PERTAIN == {Chars("of")}

\* The index (from 0) of the entry of a table that holds the lower case of
\* name, None when no entry does
lookup(table, name) ==
  LET w == lower(name)
  IN  IF \E k \in 1..Len(table) : w \in table[k]
      THEN (CHOOSE k \in 1..Len(table) : w \in table[k]) - 1
      ELSE None

\* parserinfo.jump, weekday, month (1..12, or 0 for None), hms, ampm,
\* pertain, utczone and tzoffset (<<>> for None)
jump(name) == lower(name) \in JUMP
weekday(name) == lookup(WEEKDAYS, name)
month(name) == lookup(MONTHS, name) + 1
hms(name) == lookup(HMS, name)
ampm(name) == lookup(AMPM, name)
pertain(name) == lower(name) \in PERTAIN
utczone(name) == lower(name) \in {lower(z) : z \in UTCZONE}
tzoffset(name) == IF name \in {lower(z) : z \in UTCZONE} THEN <<0>> ELSE <<>>

\* The year the parser is made in (time.localtime().tm_year), from which it
\* reads a year of two digits
ThisYear == 2026

\* parserinfo.convertyear: a year of two digits is put in the century of
\* ThisYear, and moved by a century when that is fifty years or more away
convertyear(year, century_specified) ==
  IF year < 100 /\ ~century_specified
  THEN LET y == year + (ThisYear \div 100) * 100
       IN  IF y >= ThisYear + 50 THEN y - 100
           ELSE IF y < ThisYear - 50 THEN y + 100
           ELSE y
  ELSE year

\* int(s) and s.isdigit() of a token or a slice of one: int() takes
\* decimal digits only, str.isdigit() holds for other digits too
IsInt(s) == s # <<>> /\ \A i \in 1..Len(s) : IsDigit(s[i])
isdigit(s) == s # <<>> /\ \A i \in 1..Len(s) : isnum(s[i])

\* The value from which a number is out of every range the parser and the
\* Timestamp know; the model keeps a greater number as this one
Huge == 1000000

\* int(s) of decimal digits
RECURSIVE int_from(_, _, _)
int_from(s, i, acc) ==
  IF i > Len(s) THEN acc
  ELSE int_from(s, i + 1, IF 10 * acc + DigitVal(s[i]) >= Huge THEN Huge
                          ELSE 10 * acc + DigitVal(s[i]))
IntOf(s) == int_from(s, 1, 0)

\* s[a:b] and s[a:] of Python, a and b counted from 0
slice(s, a, b) == SubSeq(s, a + 1, IF b < Len(s) THEN b ELSE Len(s))
slice_from(s, a) == SubSeq(s, a + 1, Len(s))

\* Decimal(t) is a finite number: digits, or digits, a point and digits
IsDecimal(t) ==
  \/ IsInt(t)
  \/ /\ count(t, ".") = 1
     /\ IsInt(SubSeq(t, 1, find(t, ".") - 1))
     /\ IsInt(SubSeq(t, find(t, ".") + 1, Len(t)))

\* float(t) succeeds on a word as well, which Decimal(t) gives no finite
\* number for
IsFloatWord(t) == lower(t) \in {Chars("inf"), Chars("infinity"), Chars("nan")}

\* int(value), and the digits of value % 1, for value = Decimal(t)
int_part(t) == IntOf(IF find(t, ".") = 0 THEN t ELSE SubSeq(t, 1, find(t, ".") - 1))
frac_digits(t) ==
  IF find(t, ".") = 0 THEN <<>>
  ELSE [i \in 1..(Len(t) - find(t, ".")) |-> DigitVal(t[find(t, ".") + i])]
has_frac(t) == \E i \in 1..Len(frac_digits(t)) : frac_digits(t)[i] # 0

\* The precision of the decimal context: the result of value % 1 and of
\* 60 * x is rounded, half to even, to this many significant digits
DecimalPrec == 28

\* The digits of int(value) without leading zeros; value % 1 raises
\* decimal.InvalidOperation when they are more than the precision
RECURSIVE lead_zeros(_)
lead_zeros(ds) == IF ds # <<>> /\ ds[1] = 0 THEN 1 + lead_zeros(Tail(ds)) ELSE 0
int_digits(t) ==
  LET w == IF find(t, ".") = 0 THEN t ELSE SubSeq(t, 1, find(t, ".") - 1)
      ds == [i \in 1..Len(w) |-> DigitVal(w[i])]
  IN  SubSeq(ds, lead_zeros(ds) + 1, Len(ds))
mod1_raises(t) == Len(int_digits(t)) > DecimalPrec

\* 0.ds cut to k digits is rounded up: the rest is more than half a unit
\* of the last digit kept, or half of it and that digit is odd
round_up(ds, k) ==
  /\ Len(ds) > k
  /\ \/ ds[k + 1] > 5
     \/ /\ ds[k + 1] = 5
        /\ \/ \E i \in (k + 2)..Len(ds) : ds[i] # 0
           \/ ds[k] % 2 = 1

\* The digits of n + 1 for the digits ds of n, one more than those of n
RECURSIVE plus_one(_)
plus_one(ds) ==
  IF ds = <<>> THEN <<1>>
  ELSE IF ds[Len(ds)] < 9
  THEN <<0>> \o SubSeq(ds, 1, Len(ds) - 1) \o <<ds[Len(ds)] + 1>>
  ELSE Append(plus_one(SubSeq(ds, 1, Len(ds) - 1)), 0)

\* value % 1 in the decimal context: r[1] is its integer part, 1 when the
\* fraction was rounded up to 1, and the rest its digits after the point
quantize(f, k) ==
  IF Len(f) <= k THEN <<0>> \o f
  ELSE IF round_up(f, k) THEN plus_one(SubSeq(f, 1, k))
  ELSE <<0>> \o SubSeq(f, 1, k)
quantized(f) == quantize(f, lead_zeros(f) + DecimalPrec)
mod1(t) == quantized(frac_digits(t))

\* The digits of 6 * n for the digits ds[1..i] of n, one more than i
RECURSIVE times6(_, _, _)
times6(ds, i, carry) ==
  IF i = 0 THEN <<carry>>
  ELSE Append(times6(ds, i - 1, (6 * ds[i] + carry) \div 10), (6 * ds[i] + carry) % 10)

\* int(60 * (value % 1)), when value % 1 is not 0: the product is rounded
\* to the precision as well, which makes it the next integer when the
\* digits kept after the point are nines and the rest rounds up
sixty_rounded(whole, F, k) ==
  IF round_up(F, k) /\ \A i \in 1..k : F[i] = 9 THEN whole + 1 ELSE whole
sixty_kept(whole, F) ==
  sixty_rounded(whole, F, IF whole >= 10 THEN DecimalPrec - 2
                          ELSE IF whole >= 1 THEN DecimalPrec - 1
                          ELSE lead_zeros(F) + DecimalPrec)
sixty_product(p) == sixty_kept(10 * p[1] + p[2], SubSeq(p, 3, Len(p)))
sixty_of(r) ==
  IF r[1] = 1 THEN 60 ELSE sixty_product(times6(Tail(r), Len(r) - 1, 0))
sixty_frac(t) == sixty_of(mod1(t))

\* value > 100, 1 <= value <= n for value = Decimal(t)
gt100(t) == int_part(t) > 100 \/ (int_part(t) = 100 /\ has_frac(t))
from1to(t, n) == int_part(t) >= 1 /\ (int_part(t) < n \/ (int_part(t) = n /\ ~has_frac(t)))

IsLeap(y) == (y % 4 = 0 /\ y % 100 # 0) \/ y % 400 = 0

\* calendar.monthrange(year, month)[1]
DaysInMonth(y, m) ==
  IF m = 2 THEN (IF IsLeap(y) THEN 29 ELSE 28)
  ELSE IF m \in {4, 6, 9, 11} THEN 30 ELSE 31

\* The parser's (year, month, day) collector, dateutil's _ymd: the values in
\* the order read, the positions (0 for None) of the value known to be the
\* year and of the value read from a month name, whether a year of more
\* than two digits was read, and whether an append raised
NoYmd == [vals |-> <<>>, ystridx |-> 0, mstridx |-> 0, century_specified |-> FALSE, bad |-> FALSE]
BadYmd == [vals |-> <<>>, ystridx |-> 0, mstridx |-> 0, century_specified |-> FALSE, bad |-> TRUE]

\* _ymd.append, from `super().append(int(val))` on: a second year or a
\* second month name raises
ymd_put(ymd, val, label, century) ==
  IF ymd.bad THEN ymd
  ELSE IF label = "Y" /\ ymd.ystridx # 0 THEN BadYmd
  ELSE IF label = "M" /\ ymd.mstridx # 0 THEN BadYmd
  ELSE [vals |-> Append(ymd.vals, val),
        ystridx |-> IF label = "Y" THEN Len(ymd.vals) + 1 ELSE ymd.ystridx,
        mstridx |-> IF label = "M" THEN Len(ymd.vals) + 1 ELSE ymd.mstridx,
        century_specified |-> ymd.century_specified \/ century,
        bad |-> FALSE]

\* _ymd.append(val, label) for a str: more than two digits are the year
ymd_append_str(ymd, s, label) ==
  IF isdigit(s) /\ Len(s) > 2
  THEN IF label = "M" \/ ~IsInt(s) THEN BadYmd ELSE ymd_put(ymd, IntOf(s), "Y", TRUE)
  ELSE IF ~IsInt(s) THEN BadYmd ELSE ymd_put(ymd, IntOf(s), label, FALSE)

\* _ymd.append(val, label) for the Decimal of the token t: more than 100
\* is the year
ymd_append_decimal(ymd, t) ==
  IF gt100(t) THEN ymd_put(ymd, int_part(t), "Y", TRUE)
  ELSE ymd_put(ymd, int_part(t), "", FALSE)

\* _ymd.could_be_day(value) for the Decimal of the token t
could_be_day(ymd, t) ==
  IF ymd.mstridx = 0 THEN from1to(t, 31)
  ELSE IF ymd.ystridx = 0 THEN from1to(t, DaysInMonth(2000, ymd.vals[ymd.mstridx]))
  ELSE from1to(t, DaysInMonth(ymd.vals[ymd.ystridx], ymd.vals[ymd.mstridx]))

Ymd(y, m, d) == [y |-> y, m |-> m, d |-> d]

\* _ymd._resolve_from_stridxs: every value's role is known, or two of three
\* are and the third follows
resolve_from_stridxs(ymd) ==
  LET v == ymd.vals
      yi == ymd.ystridx
      mi == ymd.mstridx
      di == IF Len(v) = 3 /\ yi # 0 /\ mi # 0
            THEN CHOOSE k \in 1..3 : k # yi /\ k # mi
            ELSE 0
  IN  Ymd(IF yi # 0 THEN v[yi] ELSE None,
          IF mi # 0 THEN v[mi] ELSE None,
          IF di # 0 THEN v[di] ELSE None)

\* _ymd.resolve_ymd(yearfirst=False, dayfirst): which value is the year,
\* which the month and which the day. Called with Len(vals) in 0..3.
resolve_ymd(ymd, dayfirst) ==
  LET v == ymd.vals
      n == Len(v)
      mi == ymd.mstridx
      yi == ymd.ystridx
      nstr == (IF yi # 0 THEN 1 ELSE 0) + (IF mi # 0 THEN 1 ELSE 0)
  IN  IF (n = nstr /\ nstr > 0) \/ (n = 3 /\ nstr = 2) THEN resolve_from_stridxs(ymd)
      ELSE IF n = 0 THEN Ymd(None, None, None)
      ELSE IF n = 1 THEN
        \* one number
        IF v[1] > 31 THEN Ymd(v[1], None, None) ELSE Ymd(None, None, v[1])
      ELSE IF mi # 0 /\ n = 2 THEN
        \* a month name and one number
        LET other == v[3 - mi]
        IN  IF other > 31 THEN Ymd(other, v[mi], None) ELSE Ymd(None, v[mi], other)
      ELSE IF n = 2 THEN
        \* two numbers
        IF v[1] > 31 THEN Ymd(v[1], v[2], None)
        ELSE IF v[2] > 31 THEN Ymd(v[2], v[1], None)
        ELSE IF dayfirst /\ v[2] <= 12 THEN Ymd(None, v[2], v[1])
        ELSE Ymd(None, v[1], v[2])
      ELSE
        \* three members
        IF mi = 1 THEN
          IF v[2] > 31 THEN Ymd(v[2], v[1], v[3]) ELSE Ymd(v[3], v[1], v[2])
        ELSE IF mi = 2 THEN
          IF v[1] > 31 THEN Ymd(v[1], v[2], v[3]) ELSE Ymd(v[3], v[2], v[1])
        ELSE IF mi = 3 THEN
          IF v[2] > 31 THEN Ymd(v[2], v[3], v[1]) ELSE Ymd(v[1], v[3], v[2])
        ELSE
          IF v[1] > 31 \/ yi = 1 THEN
            IF dayfirst /\ v[3] <= 12 THEN Ymd(v[1], v[3], v[2]) ELSE Ymd(v[1], v[2], v[3])
          ELSE IF v[1] > 12 \/ (dayfirst /\ v[2] <= 12) THEN Ymd(v[3], v[2], v[1])
          ELSE Ymd(v[3], v[1], v[2])

\* The state of parser._parse: the tokens l, the position i of the token
\* being read (from 1), the collector ymd and the members of the result
\* res (tzname and tzoffset are <<>> for None), and whether an IndexError
\* or a ValueError was raised
ParseStart(l) ==
  [l |-> l, i |-> 1, ymd |-> NoYmd, hour |-> None, minute |-> None, second |-> None,
   microsecond |-> None, weekday |-> None, ampm |-> None, tzname |-> <<>>,
   tzoffset |-> <<>>, fail |-> FALSE]

Raise(p) == [p EXCEPT !.fail = TRUE]

\* tokens[idx + k], and idx + k < len_l
At(p, k) == p.l[p.i + k]
Has(p, k) == p.i + k <= Len(p.l)

\* The state with the collector ymd and the position moved on by k
WithYmd(p, ymd, k) == IF ymd.bad THEN Raise(p) ELSE [p EXCEPT !.ymd = ymd, !.i = @ + k]

\* parser._adjust_ampm
adjust_ampm(hour, ap) ==
  IF hour < 12 /\ ap = 1 THEN hour + 12
  ELSE IF hour = 12 /\ ap = 0 THEN 0
  ELSE hour

\* parser._parsems(value): <<second, microsecond>>, <<>> when int() raises
parsems(value) ==
  IF count(value, ".") = 0
  THEN IF IsInt(value) THEN <<IntOf(value), 0>> ELSE <<>>
  ELSE IF count(value, ".") > 1 THEN <<>>
  ELSE LET i == SubSeq(value, 1, find(value, ".") - 1)
           f == SubSeq(value, find(value, ".") + 1, Len(value))
           f6 == slice(f \o Chars("000000"), 0, 6)
       IN  IF IsInt(i) /\ IsInt(f6) THEN <<IntOf(i), IntOf(f6)>> ELSE <<>>

\* parser._parse_min_sec(value) for value = Decimal(t): <<minute, second>>,
\* when value % 1 does not raise
parse_min_sec(t) == <<int_part(t), IF has_frac(t) THEN sixty_frac(t) ELSE None>>


\* parser._find_hms_idx(idx, tokens, info, allow_jump=True): the position
\* of the "h", "m" or "s" that belongs to the number at i, 0 for None
find_hms_idx(p) ==
  IF Has(p, 1) /\ hms(At(p, 1)) # None THEN p.i + 1
  ELSE IF Has(p, 2) /\ At(p, 1) = <<" ">> /\ hms(At(p, 2)) # None THEN p.i + 2
  ELSE IF p.i > 1 /\ hms(p.l[p.i - 1]) # None THEN p.i - 1
  ELSE IF p.i > 2 /\ p.i = Len(p.l) /\ p.l[p.i - 1] = <<" ">> /\ hms(p.l[p.i - 2]) # None
  THEN p.i - 2
  ELSE 0

\* parser._assign_hms(res, value_repr, hms); value % 1 is taken of an
\* hour and of a minute
assign_hms(p, t, h) ==
  IF h \in {0, 1} /\ mod1_raises(t) THEN Raise(p)
  ELSE IF h = 0 THEN [p EXCEPT !.hour = int_part(t),
                               !.minute = IF has_frac(t) THEN sixty_frac(t) ELSE @]
  ELSE IF h = 1 THEN [p EXCEPT !.minute = parse_min_sec(t)[1], !.second = parse_min_sec(t)[2]]
  ELSE IF h = 2 THEN
    IF parsems(t) = <<>> THEN Raise(p)
    ELSE [p EXCEPT !.second = parsems(t)[1], !.microsecond = parsems(t)[2]]
  ELSE p

\* The members after the first of a date written with the separator
\* l[i + 1], lines `ymd.append(value_repr)` on of the branch of
\* _parse_numeric_token for 01-01[-01] and 01-Jan[-01]
sep_members(p) ==
  LET y1 == ymd_append_str(p.ymd, p.l[p.i], "")
  IN  IF Has(p, 2) /\ ~jump(At(p, 2)) THEN
        LET y2 == IF isdigit(At(p, 2)) THEN ymd_append_str(y1, At(p, 2), "")
                  ELSE IF month(At(p, 2)) # 0 THEN ymd_put(y1, month(At(p, 2)), "M", FALSE)
                  ELSE BadYmd
        IN  IF Has(p, 3) /\ At(p, 3) = At(p, 1) THEN
              IF ~Has(p, 4) THEN Raise(p)
              ELSE IF month(At(p, 4)) # 0
              THEN WithYmd(p, ymd_put(y2, month(At(p, 4)), "M", FALSE), 4)
              ELSE WithYmd(p, ymd_append_str(y2, At(p, 4), ""), 4)
            ELSE WithYmd(p, y2, 2)
      ELSE WithYmd(p, y1, 1)

\* parser._parse_numeric_token(tokens, idx, info, ymd, res, fuzzy=False):
\* the state with i at the idx returned
parse_numeric_token(p) ==
  LET t == p.l[p.i]
      n == Len(t)
  IN
  IF ~IsDecimal(t) THEN Raise(p)
  ELSE IF /\ Len(p.ymd.vals) = 3 /\ n \in {2, 4} /\ p.hour = None
          /\ (~Has(p, 1) \/ (At(p, 1) # <<":">> /\ hms(At(p, 1)) = None)) THEN
    \* 19990101T23[59]
    IF ~IsInt(slice(t, 0, 2)) \/ (n = 4 /\ ~IsInt(slice_from(t, 2))) THEN Raise(p)
    ELSE [p EXCEPT !.hour = IntOf(slice(t, 0, 2)),
                   !.minute = IF n = 4 THEN IntOf(slice_from(t, 2)) ELSE @]
  ELSE IF n = 6 \/ (n > 6 /\ find(t, ".") = 7) THEN
    \* YYMMDD or HHMMSS[.ss]
    IF p.ymd.vals = <<>> /\ find(t, ".") = 0
    THEN WithYmd(p, ymd_append_str(ymd_append_str(ymd_append_str(p.ymd,
                      slice(t, 0, 2), ""), slice(t, 2, 4), ""), slice_from(t, 4), ""), 0)
    ELSE IF ~IsInt(slice(t, 0, 2)) \/ ~IsInt(slice(t, 2, 4)) \/ parsems(slice_from(t, 4)) = <<>>
    THEN Raise(p)
    ELSE [p EXCEPT !.hour = IntOf(slice(t, 0, 2)), !.minute = IntOf(slice(t, 2, 4)),
                   !.second = parsems(slice_from(t, 4))[1],
                   !.microsecond = parsems(slice_from(t, 4))[2]]
  ELSE IF n \in {8, 12, 14} THEN
    \* YYYYMMDD[HHMM[SS]]
    LET y3 == ymd_append_str(ymd_append_str(ymd_append_str(p.ymd,
                slice(t, 0, 4), "Y"), slice(t, 4, 6), ""), slice(t, 6, 8), "")
    IN  IF y3.bad THEN Raise(p)
        ELSE IF n = 8 THEN WithYmd(p, y3, 0)
        ELSE IF ~IsInt(slice(t, 8, 10)) \/ ~IsInt(slice(t, 10, 12)) THEN Raise(p)
        ELSE IF n > 12 /\ ~IsInt(slice_from(t, 12)) THEN Raise(p)
        ELSE [p EXCEPT !.ymd = y3, !.hour = IntOf(slice(t, 8, 10)),
                       !.minute = IntOf(slice(t, 10, 12)),
                       !.second = IF n > 12 THEN IntOf(slice_from(t, 12)) ELSE @]
  ELSE IF find_hms_idx(p) # 0 THEN
    \* HH[ ]h or MM[ ]m or SS[.ss][ ]s; parser._parse_hms gives the idx
    \* returned and which of hour, minute and second the number is
    LET hms_idx == find_hms_idx(p)
    IN  IF hms_idx > p.i
        THEN [assign_hms(p, t, hms(p.l[hms_idx])) EXCEPT !.i = hms_idx]
        ELSE assign_hms(p, t, hms(p.l[hms_idx]) + 1)
  ELSE IF Has(p, 2) /\ At(p, 1) = <<":">> THEN
    \* HH:MM[:SS[.ss]]
    IF ~IsDecimal(At(p, 2)) \/ mod1_raises(At(p, 2)) THEN Raise(p)
    ELSE LET q == [p EXCEPT !.hour = int_part(t),
                            !.minute = parse_min_sec(At(p, 2))[1],
                            !.second = parse_min_sec(At(p, 2))[2]]
         IN  IF Has(p, 4) /\ At(p, 3) = <<":">> THEN
               IF parsems(At(p, 4)) = <<>> THEN Raise(p)
               ELSE [q EXCEPT !.second = parsems(At(p, 4))[1],
                              !.microsecond = parsems(At(p, 4))[2], !.i = @ + 4]
             ELSE [q EXCEPT !.i = @ + 2]
  ELSE IF Has(p, 1) /\ At(p, 1) \in {<<"-">>, <<"/">>, <<".">>} THEN sep_members(p)
  ELSE IF ~Has(p, 1) \/ jump(At(p, 1)) THEN
    IF Has(p, 2) /\ ampm(At(p, 2)) # None
    THEN \* 12 am
         [p EXCEPT !.hour = adjust_ampm(int_part(t), ampm(At(p, 2))), !.i = @ + 2]
    ELSE \* Year, month or day
         WithYmd(p, ymd_append_decimal(p.ymd, t), 1)
  ELSE IF ampm(At(p, 1)) # None /\ int_part(t) < 24 THEN
    \* 12am
    [p EXCEPT !.hour = adjust_ampm(int_part(t), ampm(At(p, 1))), !.i = @ + 1]
  ELSE IF could_be_day(p.ymd, t) THEN WithYmd(p, ymd_append_decimal(p.ymd, t), 0)
  ELSE Raise(p)

\* parser._could_be_tzname(hour, tzname, tzoffset, token)
could_be_tzname(hour, tzname, tzoff, token) ==
  /\ hour # None /\ tzname = <<>> /\ tzoff = <<>>
  /\ Len(token) <= 5
  /\ (\A k \in 1..Len(token) : IsUpper(token[k])) \/ token \in UTCZONE

\* The branch of parser._parse for a month name: Jan-01[-99], Jan of 01
month_token(p) ==
  LET y1 == ymd_put(p.ymd, month(p.l[p.i]), "M", FALSE)
  IN  IF Has(p, 1) /\ At(p, 1) \in {<<"-">>, <<"/">>} THEN
        IF ~Has(p, 2) THEN Raise(p)
        ELSE IF Has(p, 3) /\ At(p, 3) = At(p, 1) THEN
          IF ~Has(p, 4) THEN Raise(p)
          ELSE WithYmd(p, ymd_append_str(ymd_append_str(y1, At(p, 2), ""), At(p, 4), ""), 4)
        ELSE WithYmd(p, ymd_append_str(y1, At(p, 2), ""), 2)
      ELSE IF Has(p, 4) /\ At(p, 1) = <<" ">> /\ At(p, 3) = <<" ">> /\ pertain(At(p, 2)) THEN
        IF isdigit(At(p, 4)) THEN
          IF ~IsInt(At(p, 4)) THEN Raise(p)
          ELSE WithYmd(p, ymd_put(y1, convertyear(IntOf(At(p, 4)), FALSE), "Y", TRUE), 4)
        ELSE WithYmd(p, y1, 4)
      ELSE WithYmd(p, y1, 0)

\* The branch of parser._parse for AM and PM: parser._ampm_valid raises
\* without an hour of a 12-hour clock
ampm_token(p) ==
  IF p.hour = None \/ p.hour > 12 THEN Raise(p)
  ELSE [p EXCEPT !.hour = adjust_ampm(p.hour, ampm(p.l[p.i])), !.ampm = ampm(p.l[p.i])]

\* The branch of parser._parse for the name of a time zone: in GMT+3 the
\* sign is turned and the zone is not GMT
tzname_token(p) ==
  LET name == p.l[p.i]
  IN  IF Has(p, 1) /\ At(p, 1) \in {<<"+">>, <<"-">>}
      THEN [p EXCEPT !.l[p.i + 1] = IF At(p, 1) = <<"+">> THEN <<"-">> ELSE <<"+">>,
                     !.tzname = IF utczone(name) THEN <<>> ELSE name,
                     !.tzoffset = <<>>]
      ELSE [p EXCEPT !.tzname = name, !.tzoffset = tzoffset(name)]

\* The seconds of an offset of h hours and m minutes; an offset of a day
\* or more is kept as one of a day
offset_seconds(h, m) ==
  IF h >= 24 \/ m >= 1440 \/ h * 3600 + m * 60 >= 86400 THEN 86400 ELSE h * 3600 + m * 60

\* The branch of parser._parse for a numbered time zone: -0300, -03:00,
\* -[0]3, and -0300 (BRST)
tzoffset_token(p) ==
  IF ~Has(p, 1) THEN Raise(p)
  ELSE
    LET signal == IF p.l[p.i] = <<"+">> THEN 1 ELSE -1
        t == At(p, 1)
        colon == Len(t) # 4 /\ Has(p, 2) /\ At(p, 2) = <<":">>
        hh == IF Len(t) = 4 THEN slice(t, 0, 2) ELSE IF colon THEN t ELSE slice(t, 0, 2)
        mm == IF Len(t) = 4 THEN slice_from(t, 2) ELSE IF colon THEN At(p, 3) ELSE <<"0">>
        j == IF colon THEN p.i + 2 ELSE p.i
        named == /\ j + 5 <= Len(p.l)
                 /\ jump(p.l[j + 2]) /\ p.l[j + 3] = <<"(">> /\ p.l[j + 5] = <<")">>
                 /\ 3 <= Len(p.l[j + 4])
                 /\ could_be_tzname(p.hour, p.tzname, <<>>, p.l[j + 4])
    IN  IF Len(t) # 4 /\ ~colon /\ Len(t) > 2 THEN Raise(p)
        ELSE IF colon /\ ~Has(p, 3) THEN Raise(p)
        ELSE IF ~IsInt(hh) \/ ~IsInt(mm) THEN Raise(p)
        ELSE [p EXCEPT !.tzoffset = <<signal * offset_seconds(IntOf(hh), IntOf(mm))>>,
                       !.tzname = IF named THEN p.l[j + 4] ELSE @,
                       !.i = IF named THEN j + 5 ELSE j + 1]

\* One turn of the loop of parser._parse on the token l[i], `i += 1` at
\* its end included
parse_token(p) ==
  LET t == p.l[p.i]
      q == IF IsDecimal(t) \/ IsFloatWord(t) THEN parse_numeric_token(p)
           ELSE IF weekday(t) # None THEN [p EXCEPT !.weekday = weekday(t)]
           ELSE IF month(t) # 0 THEN month_token(p)
           ELSE IF ampm(t) # None THEN ampm_token(p)
           ELSE IF could_be_tzname(p.hour, p.tzname, p.tzoffset, t) THEN tzname_token(p)
           ELSE IF p.hour # None /\ t \in {<<"+">>, <<"-">>} THEN tzoffset_token(p)
           ELSE IF ~jump(t) THEN Raise(p)
           ELSE p
  IN  [q EXCEPT !.i = @ + 1]

\* The loop of parser._parse: the state when every token is read or an
\* exception is raised
RECURSIVE parse_tokens(_)
parse_tokens(p) == IF p.fail \/ p.i > Len(p.l) THEN p ELSE parse_tokens(parse_token(p))

\* The result of a parse: a moment, with or without a time zone, or a
\* raised exception
NoDate ==
  [ok |-> FALSE, y |-> 0, m |-> 0, d |-> 0, hour |-> 0, minute |-> 0, second |-> 0,
   microsecond |-> 0, aware |-> FALSE]
DateTime(y, m, d, hh, mi, ss, us, aware) ==
  [ok |-> TRUE, y |-> y, m |-> m, d |-> d, hour |-> hh, minute |-> mi, second |-> ss,
   microsecond |-> us, aware |-> aware]
Date(y, m, d) == DateTime(y, m, d, 0, 0, 0, 0, FALSE)

\* Timestamp.min and Timestamp.max, to the microsecond: the first and the
\* last moment a Timestamp of nanoseconds since 1970 can hold
TimestampMin == <<1677, 9, 21, 0, 12, 43, 145225>>
TimestampMax == <<2262, 4, 11, 23, 47, 16, 854775>>

\* a =< b for two moments written <<year, month, ..., microsecond>>
RECURSIVE MomentLeq(_, _, _)
MomentLeq(a, b, k) ==
  IF k > Len(a) THEN TRUE
  ELSE IF a[k] # b[k] THEN a[k] < b[k]
  ELSE MomentLeq(a, b, k + 1)
InBounds(moment) == MomentLeq(TimestampMin, moment, 1) /\ MomentLeq(moment, TimestampMax, 1)

\* datetime.date(y, m, d).weekday(): 0 for Monday; 0001-01-01 is a Monday
DaysBefore(y, m) ==
  365 * (y - 1) + (y - 1) \div 4 - (y - 1) \div 100 + (y - 1) \div 400
  + (IF m > 1 THEN 31 ELSE 0) + (IF m > 2 THEN DaysInMonth(y, 2) ELSE 0)
  + (IF m > 3 THEN 31 ELSE 0) + (IF m > 4 THEN 30 ELSE 0) + (IF m > 5 THEN 31 ELSE 0)
  + (IF m > 6 THEN 30 ELSE 0) + (IF m > 7 THEN 31 ELSE 0) + (IF m > 8 THEN 31 ELSE 0)
  + (IF m > 9 THEN 30 ELSE 0) + (IF m > 10 THEN 31 ELSE 0) + (IF m > 11 THEN 30 ELSE 0)
DayOfWeek(y, m, d) == (DaysBefore(y, m) + d - 1) % 7

\* time.tzname, the names of the zone of the machine
time_tzname == {Chars("UTC")}

\* parserinfo.validate and the Timestamp of what was read. The members
\* the text does not give come from the default 0001-01-01 00:00, so that
\* a text without a year is out of the bounds of a Timestamp and raises;
\* a text with a weekday and no day is the first such day of the month;
\* the result has a time zone when the text gives an offset or a name of
\* UTC or of the machine's zone
build_date(p, dayfirst) ==
  IF p.fail \/ p.ymd.bad \/ Len(p.ymd.vals) > 3 THEN NoDate
  ELSE
    LET r == resolve_ymd(p.ymd, dayfirst)
        y == IF r.y = None THEN 1 ELSE convertyear(r.y, p.ymd.century_specified)
        m == IF r.m = None THEN 1 ELSE r.m
        d0 == IF r.d = None THEN 1 ELSE r.d
        hh == IF p.hour = None THEN 0 ELSE p.hour
        mi == IF p.minute = None THEN 0 ELSE p.minute
        ss == IF p.second = None THEN 0 ELSE p.second
        us == IF p.microsecond = None THEN 0 ELSE p.microsecond
        zulu == p.tzname \in {<<"Z">>, <<"z">>}
        off == IF zulu THEN <<0>>
               ELSE IF p.tzoffset # <<0>> /\ p.tzname # <<>> /\ utczone(p.tzname) THEN <<0>>
               ELSE p.tzoffset
        name == IF zulu \/ (p.tzoffset = <<0>> /\ p.tzname = <<>>) THEN Chars("UTC")
                ELSE p.tzname
    IN  IF ~(y \in 1..9999) \/ ~(m \in 1..12) THEN NoDate
        ELSE IF ~(d0 \in 1..DaysInMonth(y, m)) THEN NoDate
        ELSE IF hh > 23 \/ mi > 59 \/ ss > 59 \/ us > 999999 THEN NoDate
        ELSE IF off # <<>> /\ (off[1] >= 86400 \/ off[1] <= -86400) THEN NoDate
        ELSE
          LET d == IF p.weekday # None /\ r.d = None
                   THEN d0 + ((p.weekday - DayOfWeek(y, m, d0) + 7) % 7)
                   ELSE d0
          IN  IF ~InBounds(<<y, m, d, hh, mi, ss, us>>) THEN NoDate
              ELSE DateTime(y, m, d, hh, mi, ss, us, name \in time_tzname \/ off # <<>>)

\* The first try of pd.to_datetime on a str, the text read as ISO 8601.
\* Of the texts lines 35, 37 and 116 hand over, the ones ISO 8601 and the
\* parser read differently are the dates YYYYMMDD in eight digits of ASCII:
\* the month stands before the day whatever dayfirst says
is_iso_basic(s) ==
  /\ Len(s) = 8
  /\ \A i \in 1..8 : s[i] \in DOMAIN DigitValOf
  /\ IntOf(slice(s, 0, 4)) >= 1
  /\ IntOf(slice(s, 4, 6)) \in 1..12
  /\ IntOf(slice(s, 6, 8)) \in 1..DaysInMonth(IntOf(slice(s, 0, 4)), IntOf(slice(s, 4, 6)))
iso_basic(s) ==
  IF InBounds(<<IntOf(slice(s, 0, 4)), IntOf(slice(s, 4, 6)), IntOf(slice(s, 6, 8)), 0, 0, 0, 0>>)
  THEN Date(IntOf(slice(s, 0, 4)), IntOf(slice(s, 4, 6)), IntOf(slice(s, 6, 8)))
  ELSE NoDate

\* dateutil's parser on s, and the Timestamp pandas builds of its result
parse_datetime_string(s, dayfirst) ==
  CHOOSE dt \in {build_date(p, dayfirst) : p \in {parse_tokens(ParseStart(timelex_split(s)))}} :
    TRUE

\* pd.to_datetime(s, dayfirst=...) for a str
to_datetime(s, dayfirst) ==
  IF is_iso_basic(s) THEN iso_basic(s) ELSE parse_datetime_string(s, dayfirst)

(***************************************************************************)
(* Column labels and the Cell Classifier                                   *)
(***************************************************************************)
\* A column label: a str, a native date (datetime, as read_excel gives for
\* a date cell of the header) or a native integer
StrLabel(s) == [k |-> "str", s |-> s, y |-> 0, m |-> 0, d |-> 0]
DateLabel(y, m, d) == [k |-> "date", s |-> <<>>, y |-> y, m |-> m, d |-> d]
IntLabel(n) == [k |-> "int", s |-> <<>>, y |-> n, m |-> 0, d |-> 0]

\* pd.to_datetime(col, dayfirst=True) for a label that is not a str: a
\* datetime is kept, an integer counts nanoseconds from 1970-01-01 (every
\* integer of the model is less than a day of them)
to_datetime_native(col) ==
  IF col.k = "date" THEN Date(col.y, col.m, col.d)
  ELSE IF col.y >= 0 THEN Date(1970, 1, 1)
  ELSE Date(1969, 12, 31)

\* clean_col, lines 25-31: separators normalised, and a separator put
\* between the month name and the year of a compact label
clean_col(s) ==
  LET c == replace(replace(s, " ", "-"), "/", "-")
  IN  IF compact_match(c)
      THEN LET a == CHOOSE a \in CompactSplits(c) : TRUE
           IN  SubSeq(c, 1, a) \o <<"-">> \o SubSeq(c, a + 1, Len(c))
      ELSE c

\* lines 24-37: the text handed to pd.to_datetime for a str label: the
\* label itself when it is a full date, else "01-" and the cleaned label
date_text(s) ==
  IF full_date_match(strip(s)) THEN strip(s) ELSE <<"0", "1", "-">> \o clean_col(s)

\* as month_dt, parsing month first (dayfirst dropped)
month_dt_monthfirst(col) ==
  IF col.k = "str" THEN to_datetime(date_text(col.s), FALSE) ELSE to_datetime_native(col)

\* dt of is_month_column, lines 24-40: the date the label parses to, or
\* the exception the try block catches
month_dt(col) ==
  IF col.k = "str" THEN to_datetime(date_text(col.s), TRUE) ELSE to_datetime_native(col)

\* normalized, line 43: the Canonical Month Key, the first of the month
normalized(dt) == IF dt.ok THEN Date(dt.y, dt.m, 1) ELSE NoDate

\* is_month_column(col, idx): True with the key the label is rewritten to,
\* False (ok = FALSE) when anything in the try block raised
month_key(col) == normalized(month_dt(col))
is_month_column(col) == month_key(col).ok

\* The label a key is stored as in df.columns
KeyLabel(key) == DateLabel(key.y, key.m, key.d)

\* target_datetime, lines 114-116: the user's input stripped, "01-" put
\* before it, parsed with pandas' defaults
target_datetime(input) == to_datetime(<<"0", "1", "-">> \o strip(input), FALSE)

(***************************************************************************)
(* Encodings of a calendar month as a column label                         *)
(***************************************************************************)
MonthAbbr ==
  <<
     <<"J", "a", "n">>,
     <<"F", "e", "b">>,
     <<"M", "a", "r">>,
     <<"A", "p", "r">>,
     <<"M", "a", "y">>,
     <<"J", "u", "n">>,
     <<"J", "u", "l">>,
     <<"A", "u", "g">>,
     <<"S", "e", "p">>,
     <<"O", "c", "t">>,
     <<"N", "o", "v">>,
     <<"D", "e", "c">>
  >>
MonthFull ==
  <<
     <<"J", "a", "n", "u", "a", "r", "y">>,
     <<"F", "e", "b", "r", "u", "a", "r", "y">>,
     <<"M", "a", "r", "c", "h">>,
     <<"A", "p", "r", "i", "l">>,
     <<"M", "a", "y">>,
     <<"J", "u", "n", "e">>,
     <<"J", "u", "l", "y">>,
     <<"A", "u", "g", "u", "s", "t">>,
     <<"S", "e", "p", "t", "e", "m", "b", "e", "r">>,
     <<"O", "c", "t", "o", "b", "e", "r">>,
     <<"N", "o", "v", "e", "m", "b", "e", "r">>,
     <<"D", "e", "c", "e", "m", "b", "e", "r">>
  >>

DigitChar(n) == DigitSeq[n + 1]
D2(n) == <<DigitChar((n \div 10) % 10), DigitChar(n % 10)>>
D4(n) == <<DigitChar((n \div 1000) % 10), DigitChar((n \div 100) % 10)>> \o D2(n % 100)

\* The months, years and days of the encodings, the separators between
\* their parts and the spellings of a month name
EncMonths == 1..12
EncYears == {2011, 2024, 2040}
EncDays == {1, 12, 13, 28}
NameSeps == {"-", "/", " "}
NumSeps == {"-", "/"}
MonthNames(m) == {MonthAbbr[m], MonthFull[m], upper(MonthAbbr[m]), lower(MonthFull[m])}

\* The encodings of month m of year y, each with the form it has
Encodings(m, y) ==
  \* compact: May2024, May24
     {[form |-> "compact", col |-> StrLabel(n \o D4(y))] : n \in MonthNames(m)}
  \cup {[form |-> "compact", col |-> StrLabel(n \o D2(y % 100))] : n \in MonthNames(m)}
  \* separated: May-24, May 2024, 05-2024
  \cup {[form |-> "separated", col |-> StrLabel(n \o <<sep>> \o D2(y % 100))] :
          n \in MonthNames(m), sep \in NameSeps}
  \cup {[form |-> "separated", col |-> StrLabel(n \o <<sep>> \o D4(y))] :
          n \in MonthNames(m), sep \in NameSeps}
  \cup {[form |-> "separated", col |-> StrLabel(D2(m) \o <<sep>> \o D4(y))] : sep \in NumSeps}
  \* full day-first dates: 01/05/2024, 01-05-24, 01-May-24, 01 May 2024
  \cup {[form |-> "full", col |-> StrLabel(D2(d) \o <<sep>> \o D2(m) \o <<sep>> \o D4(y))] :
          d \in EncDays, sep \in NumSeps}
  \cup {[form |-> "full", col |-> StrLabel(D2(d) \o <<sep>> \o D2(m) \o <<sep>> \o D2(y % 100))] :
          d \in EncDays, sep \in NumSeps}
  \cup {[form |-> "full", col |-> StrLabel(D2(d) \o <<sep>> \o n \o <<sep>> \o D2(y % 100))] :
          d \in EncDays, sep \in NameSeps, n \in MonthNames(m)}
  \cup {[form |-> "full", col |-> StrLabel(D2(d) \o <<sep>> \o n \o <<sep>> \o D4(y))] :
          d \in EncDays, sep \in NameSeps, n \in MonthNames(m)}
  \* native date values
  \cup {[form |-> "native", col |-> DateLabel(y, m, d)] : d \in EncDays}

\* Labels that denote no month
OtherLabels ==
  {StrLabel(<<"I", "t", "e", "m", "s">>), StrLabel(<<"I", "n", "v", "o", "i", "c", "e", " ", "n", "u", "m", "b", "e", "r">>), StrLabel(<<"T", "o", "t", "a", "l">>), StrLabel(<<"N", "o", "t", "e", "s">>),
   StrLabel(<<"P", "r", "e", "p", "a", "y", "m", "e", "n", "t", " ", "s", "c", "h", "e", "d", "u", "l", "e">>), StrLabel(<<"U", "n", "n", "a", "m", "e", "d", ":", " ", "3">>), StrLabel(<<"D", "e", "s", "c", "r", "i", "p", "t", "i", "o", "n">>), StrLabel(<<"2", "0", "2", "4">>),
   IntLabel(2024)}

\* Every label the classifier is checked on, with its form and the month
\* and year it denotes
ClassifierInputs ==
  UNION {{[form |-> e.form, col |-> e.col, m |-> m, y |-> y] : e \in Encodings(m, y)} :
           m \in EncMonths, y \in EncYears}
  \cup {[form |-> "other", col |-> c, m |-> 0, y |-> 0] : c \in OtherLabels}

(***************************************************************************)
(* Cells, grids and the Header Locator                                     *)
(***************************************************************************)
\* A cell: empty (NaN), a str, a native date, an integer, or a number held
\* in thousandths
NaN == [k |-> "nan", s |-> <<>>, y |-> 0, m |-> 0, d |-> 0]
Num(v) == [k |-> "num", s |-> <<>>, y |-> v, m |-> 0, d |-> 0]
notna(cell) == cell.k # "nan"

\* The decimal digits of a natural number
RECURSIVE Dec(_)
Dec(n) == IF n < 10 THEN <<DigitChar(n)>> ELSE Dec(n \div 10) \o <<DigitChar(n % 10)>>
Abs(n) == IF n < 0 THEN -n ELSE n
Sign(n) == IF n < 0 THEN <<"-">> ELSE <<>>

\* str(cell) of a cell that is not empty
str(cell) ==
  IF cell.k = "str" THEN cell.s
  ELSE IF cell.k = "date"
       THEN D4(cell.y) \o <<"-">> \o D2(cell.m) \o <<"-">> \o D2(cell.d)
            \o <<" ", "0", "0", ":", "0", "0", ":", "0", "0">>
  ELSE IF cell.k = "int" THEN Sign(cell.y) \o Dec(Abs(cell.y))
  ELSE Sign(cell.y) \o Dec(Abs(cell.y) \div 1000) \o <<".">>
       \o (IF Abs(cell.y) % 1000 = 0 THEN <<"0">>
           ELSE IF Abs(cell.y) % 100 = 0 THEN <<DigitChar((Abs(cell.y) \div 100) % 10)>>
           ELSE IF Abs(cell.y) % 10 = 0
                THEN <<DigitChar((Abs(cell.y) \div 100) % 10), DigitChar((Abs(cell.y) \div 10) % 10)>>
           ELSE <<DigitChar((Abs(cell.y) \div 100) % 10), DigitChar((Abs(cell.y) \div 10) % 10),
                  DigitChar(Abs(cell.y) % 10)>>)

\* expected_keywords, line 11
expected_keywords == {<<"i", "t", "e", "m", "s">>, <<"i", "n", "v", "o", "i", "c", "e">>, <<"a", "m", "o", "u", "n", "t">>}

\* row_values, line 13: the cells of a row that are not empty, as lower-case text
row_values(row) ==
  LET keep == {i \in 1..Len(row) : notna(row[i])}
  IN  {lower(str(row[i])) : i \in keep}

\* lines 14-17: some cell of the row holds some keyword
row_matches(row) ==
  \E cell \in row_values(row) : \E keyword \in expected_keywords : Contains(keyword, cell)

\* detect_header_row, lines 9-18: the rows from i on, top to bottom; the
\* 0-based index of the first row that matches, or None
RECURSIVE scan_rows(_, _)
scan_rows(grid, i) ==
  IF i > Len(grid) THEN None
  ELSE IF row_matches(grid[i]) THEN i - 1
  ELSE scan_rows(grid, i + 1)

\* as detect_header_row, returning the last row that matches
RECURSIVE scan_rows_last(_, _)
scan_rows_last(grid, i) ==
  IF i < 1 THEN None
  ELSE IF row_matches(grid[i]) THEN i - 1
  ELSE scan_rows_last(grid, i - 1)
detect_header_row_last(grid) == scan_rows_last(grid, Len(grid))

detect_header_row(grid) == scan_rows(grid, 1)

(***************************************************************************)
(* Tables: read_csv, read_excel_file, parse_month_cols                     *)
(***************************************************************************)
ItemsLabel == StrLabel(<<"I", "t", "e", "m", "s">>)
InvoiceLabel == StrLabel(<<"I", "n", "v", "o", "i", "c", "e", " ", "n", "u", "m", "b", "e", "r">>)

\* A DataFrame: its column labels and its rows, each row a sequence of
\* cells, one per column, and the labels the hash table of its column
\* Index holds, <<>> as long as no lookup by label has filled the table;
\* NoneDf is Python's None
DataFrame(columns, data) ==
  [none |-> FALSE, columns |-> columns, data |-> data, engine |-> <<>>]
NoneDf == [none |-> TRUE, columns |-> <<>>, data |-> <<>>, engine |-> <<>>]

\* The label pandas gives a column whose header cell is empty
Unnamed(i) == StrLabel(<<"U", "n", "n", "a", "m", "e", "d", ":", " ">> \o Dec(i))

\* The column labels read_excel makes of the header row: a str, date or
\* integer cell is the label
excel_columns(row) == [i \in 1..Len(row) |-> IF notna(row[i]) THEN row[i] ELSE Unnamed(i - 1)]

\* The column labels read_csv makes of the first line: every label is text
csv_columns(row) ==
  [i \in 1..Len(row) |-> IF notna(row[i]) THEN StrLabel(str(row[i])) ELSE Unnamed(i - 1)]

\* pd.read_excel(header=None, dtype=str), line 60: every cell as text
read_raw(cells) ==
  [r \in 1..Len(cells) |->
     [i \in 1..Len(cells[r]) |-> IF notna(cells[r][i]) THEN StrLabel(str(cells[r][i])) ELSE NaN]]

\* pd.read_csv(file_path), line 97: the first line names the columns
read_csv(cells) == DataFrame(csv_columns(cells[1]), Tail(cells))

\* The positions of the columns that carry a label
col_positions(columns, label) == {i \in 1..Len(columns) : columns[i] = label}
has_column(columns, label) == col_positions(columns, label) # {}
get_loc(columns, label) == CHOOSE i \in col_positions(columns, label) : TRUE

\* The first lookup by label fills the hash table of the column Index with
\* the labels as they are then; a later write behind df.columns.values
\* (line 44) does not change it, and every lookup by label reads it
fill_engine(table) ==
  IF table.engine = <<>> THEN [table EXCEPT !.engine = table.columns] ELSE table
index_labels(table) == fill_engine(table).engine

RowIsEmpty(row) == \A i \in 1..Len(row) : ~notna(row[i])
KeepNotEmpty(row) == ~RowIsEmpty(row)

\* df.dropna(how='all'), line 71
dropna_all(data) == SelectSeq(data, KeepNotEmpty)

\* df.dropna(subset=[label]), line 73, for a label the table has
RECURSIVE dropna_at(_, _)
dropna_at(data, c) ==
  IF data = <<>> THEN <<>>
  ELSE (IF notna(Head(data)[c]) THEN <<Head(data)>> ELSE <<>>) \o dropna_at(Tail(data), c)
dropna_subset(columns, data, label) == dropna_at(data, get_loc(columns, label))

\* read_excel_file, lines 56-78: the header row found in the raw grid, the
\* table read below it and cleaned; exc is the exception raised again at
\* line 78, df is None when no header row was found. The lookup of "Items"
\* at line 73 fills the hash table of the column Index.
read_excel_file(cells) ==
  LET h == detect_header_row(read_raw(cells))
  IN  IF h = None
      THEN [exc |-> "none", header_row |-> h, df |-> NoneDf]
      ELSE LET columns == excel_columns(cells[h + 1])
               data == dropna_all(SubSeq(cells, h + 2, Len(cells)))
           IN  IF ~has_column(columns, ItemsLabel)
               THEN [exc |-> "KeyError", header_row |-> h, df |-> NoneDf]
               ELSE [exc |-> "none", header_row |-> h,
                     df |-> fill_engine(DataFrame(columns,
                                                  dropna_subset(columns, data, ItemsLabel)))]

\* line 50: is_month_column is called once on every column, left to right
classify_columns(columns) == [i \in 1..Len(columns) |-> month_key(columns[i])]

\* line 50: the 0-based positions, left to right, of the columns from i on
\* for which is_month_column returned True
RECURSIVE month_indices_from(_, _)
month_indices_from(keys, i) ==
  IF i > Len(keys) THEN <<>>
  ELSE (IF keys[i].ok THEN <<i - 1>> ELSE <<>>) \o month_indices_from(keys, i + 1)
month_indices(keys) == month_indices_from(keys, 1)

\* as rewrite_columns, storing each key one column to the right
rewrite_columns_shifted(columns, keys) ==
  [i \in 1..Len(columns) |->
     IF i > 1 /\ keys[i - 1].ok THEN KeyLabel(keys[i - 1]) ELSE columns[i]]

\* line 44 over the columns: df.columns.values[idx] = normalized in every
\* call that returned True
rewrite_columns(columns, keys) ==
  [i \in 1..Len(columns) |-> IF keys[i].ok THEN KeyLabel(keys[i]) ELSE columns[i]]

\* as month_range, returning the first month column twice
month_range_first(indices) == [start |-> indices[1], end |-> indices[1]]

\* line 54: month_indices[0], month_indices[-1]
month_range(indices) == [start |-> indices[1], end |-> indices[Len(indices)]]

\* lines 50-54, given what is_month_column returned for every column
month_cols_result(columns, keys) ==
  IF month_indices(keys) = <<>>
  THEN [exc |-> "ValueError", columns |-> rewrite_columns(columns, keys),
        start |-> None, end |-> None]
  ELSE [exc |-> "none", columns |-> rewrite_columns(columns, keys),
        start |-> month_range(month_indices(keys)).start,
        end |-> month_range(month_indices(keys)).end]

\* parse_month_cols(df), lines 20-54; df.columns of None is an AttributeError
parse_month_cols(table) ==
  IF table.none
  THEN [exc |-> "AttributeError", columns |-> <<>>, start |-> None, end |-> None]
  ELSE CHOOSE r \in {month_cols_result(table.columns, keys) :
                       keys \in {classify_columns(table.columns)}} : TRUE

(***************************************************************************)
(* main: the journal lines                                                 *)
(***************************************************************************)
\* 2^e modulo 1000
RECURSIVE Pow2Mod(_)
Pow2Mod(e) == IF e = 0 THEN 1 ELSE (2 * Pow2Mod(e - 1)) % 1000

\* The exponent of the float nearest a / 1000, a > 0: the k with
\* 2^k <= a / 1000 < 2^(k + 1)
RECURSIVE FloatExp(_, _, _)
FloatExp(a, unit, k) ==
  IF a < unit THEN FloatExp(2 * a, unit, k - 1)
  ELSE IF a >= 2 * unit THEN FloatExp(a, 2 * unit, k + 1)
  ELSE k

\* A cell's number of a thousandths is the float nearest a / 1000, a > 0:
\* -1, 0 or 1 as that float is below, at or above a / 1000. The float is
\* m / 2^e with m the integer nearest a * 2^e / 1000 and e = 52 - k.
FloatSide(a) ==
  LET rem == ((a % 1000) * Pow2Mod(52 - FloatExp(a, 1000, 0))) % 1000
  IN  IF rem = 0 THEN 0 ELSE IF rem < 500 THEN -1 ELSE 1

\* round(val, 2) of a float held in thousandths, in hundredths: the
\* hundredth nearest the float, and of two equally near the even one
round2(v) ==
  LET a == IF v < 0 THEN -v ELSE v
      q == a \div 10
      r == a % 10
      h == IF r < 5 THEN q
           ELSE IF r > 5 THEN q + 1
           ELSE IF FloatSide(a) < 0 THEN q
           ELSE IF FloatSide(a) > 0 THEN q + 1
           ELSE IF q % 2 = 0 THEN q ELSE q + 1
  IN  IF v < 0 THEN -h ELSE h

\* int(x) of a number held in thousandths: towards zero
trunc(v) == IF v >= 0 THEN v \div 1000 ELSE -((-v) \div 1000)

\* lines 134-138: the last day of the target month as '%d/%m/%Y'
entry_date(dt) ==
  D2(DaysInMonth(dt.y, dt.m)) \o <<"/">> \o D2(dt.m) \o <<"/">> \o D4(dt.y)

\* A Timestamp at midnight without a time zone: it equals the datetime of
\* its date and no other
IsMidnight(dt) == dt = Date(dt.y, dt.m, dt.d)

\* `target_datetime in df.columns`, line 120, asks the hash table of the
\* column Index: a Timestamp equals a label that is the same moment
in_columns(dt, table) == IsMidnight(dt) /\ has_column(index_labels(table), KeyLabel(dt))

\* line 128: df[target_datetime].notna() & (df[target_datetime] != 0) for
\* the cell of one row
keep_cell(cell) == notna(cell) /\ ~(cell.k \in {"num", "int"} /\ cell.y = 0)

\* line 128: the 1-based positions, from i on, of the rows whose cell in
\* column c is kept
RECURSIVE filtered_from(_, _, _)
filtered_from(data, c, i) ==
  IF i > Len(data) THEN <<>>
  ELSE (IF keep_cell(data[i][c]) THEN <<i>> ELSE <<>>) \o filtered_from(data, c, i + 1)
filtered_index(table, dt) ==
  filtered_from(table.data, get_loc(index_labels(table), KeyLabel(dt)), 1)

\* The characters int() skips around a number: those of str.isspace()
\* but the four separators U+001C to U+001F
IntSpace == Whitespace \ {"", "", "", ""}
RECURSIVE int_lstrip(_)
int_lstrip(s) == IF s # <<>> /\ s[1] \in IntSpace THEN int_lstrip(Tail(s)) ELSE s
RECURSIVE int_rstrip(_)
int_rstrip(s) ==
  IF s # <<>> /\ s[Len(s)] \in IntSpace THEN int_rstrip(SubSeq(s, 1, Len(s) - 1)) ELSE s

\* int(s) of a str: white space around it skipped, a sign, then decimal
\* digits with single underscores between them; ValueError otherwise
int_text(s) ==
  LET u == int_rstrip(int_lstrip(s))
      signed == u # <<>> /\ u[1] \in {"+", "-"}
      body == IF signed THEN Tail(u) ELSE u
      n == Len(body)
      digits == SelectSeq(body, IsDigit)
  IN  IF /\ n > 0
         /\ IsDigit(body[1]) /\ IsDigit(body[n])
         /\ \A i \in 1..n : IsDigit(body[i]) \/ body[i] = "_"
         /\ \A i \in 1..(n - 1) : ~(body[i] = "_" /\ body[i + 1] = "_")
      THEN [ok |-> TRUE, v |-> IF signed /\ u[1] = "-" THEN -NumVal(digits) ELSE NumVal(digits)]
      ELSE [ok |-> FALSE, v |-> 0]

\* abs(round(val, 2)), line 145, in hundredths: of a float, and of an int,
\* which round() gives back
amount_of(val) == IF val.k = "int" THEN 100 * Abs(val.y) ELSE Abs(round2(val.y))

\* lines 143-145 for the row at idx: the exception raised, or the
\* description, reference and amount of its two lines
row_entry(table, dt, idx) ==
  LET row == table.data[idx]
      labels == index_labels(table)
      val == row[get_loc(labels, KeyLabel(dt))]
      Fail(e) == [exc |-> e, item |-> <<>>, reference |-> 0, amount |-> 0]
  IN  IF ~has_column(labels, ItemsLabel) THEN Fail("KeyError")
      ELSE IF row[get_loc(labels, ItemsLabel)].k # "str" THEN Fail("AttributeError")
      ELSE IF ~has_column(labels, InvoiceLabel) THEN Fail("KeyError")
      ELSE LET inv == row[get_loc(labels, InvoiceLabel)]
           IN  IF inv.k = "nan" THEN Fail("ValueError")
               ELSE IF inv.k = "str" /\ ~int_text(inv.s).ok THEN Fail("ValueError")
               ELSE IF inv.k = "date" THEN Fail("TypeError")
               ELSE IF val.k \notin {"num", "int"} THEN Fail("TypeError")
               ELSE [exc |-> "none",
                     item |-> <<"P", "r", "e", "p", "a", "y", "m", "e", "n", "t", " ", "a", "m", "o", "r", "t", "i", "z", "a", "t", "i", "o", "n", " ", "f", "o", "r", " ">> \o title(row[get_loc(labels, ItemsLabel)].s),
                     reference |-> IF inv.k = "int" THEN inv.y
                                   ELSE IF inv.k = "str" THEN int_text(inv.s).v
                                   ELSE trunc(inv.y),
                     amount |-> amount_of(val)]

\* lines 149-150: the debit line on the expense account and the credit
\* line on the prepayments account
journal_lines(date, e, exp_code, prepay_code) ==
  << [Date |-> date, Description |-> e.item, Reference |-> e.reference,
      Account |-> exp_code, Amount |-> e.amount],
     [Date |-> date, Description |-> e.item, Reference |-> e.reference,
      Account |-> prepay_code, Amount |-> -e.amount] >>

\* line 157: the names of the directory that end in ".csv" after a stem
\* for which str.isdigit() holds
existing_files(listing) ==
  {f \in listing : /\ Len(f) >= 4
                   /\ SubSeq(f, Len(f) - 3, Len(f)) = Chars(".csv")
                   /\ isdigit(SubSeq(f, 1, Len(f) - 4))}

\* lines 158-159: int() of every stem, which raises ValueError on a digit
\* that is no decimal digit; one more than the greatest, 0 when there is none
next_index(listing) ==
  LET stems == {SubSeq(f, 1, Len(f) - 4) : f \in existing_files(listing)}
      existing_indices == {int_text(t).v : t \in stems}
  IN  IF \E t \in stems : ~int_text(t).ok THEN [exc |-> "ValueError", idx |-> None]
      ELSE IF existing_indices = {} THEN [exc |-> "none", idx |-> 0]
      ELSE [exc |-> "none",
            idx |-> 1 + CHOOSE i \in existing_indices : \A j \in existing_indices : j <= i]

(***************************************************************************)
(* The inputs of a run                                                     *)
(***************************************************************************)
\* The most data rows of an input file and the most answers given at the
\* target-month prompt
MaxDataRows == 2
MaxPrompts == 2

FileTypes == {"csv", "xlsx", "xls", "txt"}

\* Header rows. HeaderNative holds a date cell and an integer cell, which
\* only a spreadsheet can hold.
HeaderNotes == <<ItemsLabel, InvoiceLabel, StrLabel(<<"M", "a", "y", "2", "0", "2", "4">>), StrLabel(<<"N", "o", "t", "e", "s">>), StrLabel(<<"J", "u", "n", "-", "2", "4">>)>>
HeaderUnordered == <<ItemsLabel, InvoiceLabel, StrLabel(<<"J", "u", "n", "2", "4">>), StrLabel(<<"0", "1", "/", "0", "5", "/", "2", "0", "2", "4">>), StrLabel(<<"T", "o", "t", "a", "l">>)>>
HeaderNoMonths == <<ItemsLabel, InvoiceLabel, StrLabel(<<"N", "o", "t", "e", "s">>), StrLabel(<<"T", "o", "t", "a", "l">>), NaN>>
HeaderNative == <<ItemsLabel, InvoiceLabel, DateLabel(2024, 5, 15), DateLabel(2024, 6, 1), IntLabel(2024)>>
HeaderNoKeyword == <<StrLabel(<<"D", "e", "s", "c", "r", "i", "p", "t", "i", "o", "n">>), StrLabel(<<"R", "e", "f">>), StrLabel(<<"M", "a", "y", "-", "2", "4">>), StrLabel(<<"J", "u", "n", "-", "2", "4">>), StrLabel(<<"J", "u", "l", "-", "2", "4">>)>>
HeaderNoItems == <<StrLabel(<<"I", "t", "e", "m">>), InvoiceLabel, StrLabel(<<"0", "5", "-", "2", "0", "2", "4">>), StrLabel(<<"0", "6", "-", "2", "0", "2", "4">>), StrLabel(<<"N", "o", "t", "e", "s">>)>>
TextHeaders == {HeaderNotes, HeaderUnordered, HeaderNoMonths, HeaderNoKeyword, HeaderNoItems}

\* The rows above the header
TitleRow == <<StrLabel(<<"P", "r", "e", "p", "a", "y", "m", "e", "n", "t", " ", "s", "c", "h", "e", "d", "u", "l", "e">>), NaN, NaN, NaN, NaN>>
BlankRow == <<NaN, NaN, NaN, NaN, NaN>>
Preambles == {<<>>, <<BlankRow, TitleRow>>}

\* Data rows: two items, one with an amount halfway between two hundredths
\* and a whole amount, the other with its invoice number as text; the
\* balance row that has no item name, an empty row, and an item whose
\* invoice number is missing
DataRows ==
  {<<StrLabel(<<"o", "f", "f", "i", "c", "e", " ", "r", "e", "n", "t">>), IntLabel(1001), Num(2675), Num(0), IntLabel(25)>>,
   <<StrLabel(<<"I", "N", "S", "U", "R", "A", "N", "C", "E">>), StrLabel(<<" ", "1", "_", "0", "0", "2">>), NaN, Num(-5678), Num(1000)>>,
   <<NaN, NaN, Num(1234), Num(-5678), Num(3500)>>,
   BlankRow,
   <<StrLabel(<<"s", "o", "f", "t", "w", "a", "r", "e">>), NaN, Num(990), Num(990), Num(990)>>}

BoundedSeq(S, n) == UNION {[1..k -> S] : k \in 0..n}

\* The cells of the input files of a type
Sheets(type) ==
  {pre \o <<hdr>> \o data :
     pre \in Preambles,
     hdr \in (IF type = "csv" THEN TextHeaders ELSE TextHeaders \cup {HeaderNative}),
     data \in BoundedSeq(DataRows, MaxDataRows)}

\* Answers at the target-month prompt, and at the ledger code prompts
TargetInputs ==
  {<<"M", "a", "y", "-", "2", "4">>, <<" ", "j", "u", "n", " ", "2", "0", "2", "4", " ">>, <<"0", "5", "-", "2", "0", "2", "4">>, <<"J", "u", "l", "-", "2", "4">>, <<"M", "a", "y", "-", "2", "4", " ", "1", "0", ":", "3", "0">>, <<"n", "e", "x", "t", " ", "m", "o", "n", "t", "h">>}
PrepayCodes == {<<"p", "r", "e", "1", "2", "0", "0">>}
ExpenseCodes == {<<"6", "1", "0", "0">>, <<"e", "x", "p", "-", "a">>}

\* What os.listdir may give for the outputs directory: nothing, numbered
\* files among others, and a name whose stem is a digit int() refuses
Listings ==
  {{},
   {Chars("2.csv"), Chars("10.csv"), Chars("notes.csv"), Chars("7.txt"), Chars(".csv")},
   {Chars("0.csv"), <<"Â²", ".", "c", "s", "v">>}}

(***************************************************************************)
(* main, lines 94-164, as a state machine                                  *)
(***************************************************************************)
NoExc == [type |-> "none", at |-> "none"]
Raised(type, at) == [type |-> type, at |-> at]

HeaderIdle == raw_df0 = <<>> /\ raw_df = <<>> /\ h_result = None /\ h_done = FALSE
ClassifierIdle ==
  /\ c_col = NaN /\ c_form = "none" /\ c_month = 0 /\ c_year = 0
  /\ c_key = NoDate /\ c_classified = FALSE /\ c_tkey = NoDate /\ c_parsed = FALSE
MainIdle ==
  /\ pc = "start" /\ file_type = "none" /\ sheet = <<>> /\ header_row = None
  /\ df = NoneDf /\ df0 = NoneDf /\ start_idx = None /\ end_idx = None
  /\ target = <<>> /\ target_dt = NoDate /\ nprompts = 0 /\ prepay_ledger_code = <<>>
  /\ todo = <<>> /\ rows = <<>> /\ written = FALSE /\ out_idx = None /\ exc = NoExc

Init ==
  /\ HeaderIdle /\ ClassifierIdle
  /\ pc = "start"
  /\ file_type \in FileTypes
  /\ sheet \in Sheets(file_type)
  /\ header_row = None /\ df = NoneDf /\ df0 = NoneDf
  /\ start_idx = None /\ end_idx = None
  /\ target = <<>> /\ target_dt = NoDate /\ nprompts = 0 /\ prepay_ledger_code = <<>>
  /\ todo = <<>> /\ rows = <<>> /\ written = FALSE /\ out_idx = None /\ exc = NoExc

\* lines 95-107: the file is read by its type
LoadFile ==
  /\ pc = "start"
  /\ IF file_type = "csv"
     THEN /\ df' = read_csv(sheet)
          /\ pc' = "loaded"
          /\ UNCHANGED <<header_row, exc>>
     ELSE IF file_type \in {"xlsx", "xls"}
     THEN \E r \in {read_excel_file(sheet)} :
              /\ header_row' = r.header_row
              /\ df' = r.df
              /\ IF r.exc = "none"
                 THEN pc' = "loaded" /\ exc' = exc
                 ELSE pc' = "crashed" /\ exc' = Raised(r.exc, "read_excel_file")
     ELSE /\ pc' = "aborted"
          /\ UNCHANGED <<header_row, df, exc>>
  /\ UNCHANGED <<file_type, sheet, df0, start_idx, end_idx, target, target_dt,
                 nprompts, prepay_ledger_code, todo, rows, written, out_idx>>

\* line 110: start_idx, end_idx = parse_month_cols(df)
ParseMonthCols ==
  /\ pc = "loaded"
  /\ \E r \in {parse_month_cols(df)} :
         /\ df0' = df
         /\ IF r.exc = "none"
            THEN /\ df' = [df EXCEPT !.columns = r.columns]
                 /\ start_idx' = r.start
                 /\ end_idx' = r.end
                 /\ pc' = "prompt"
                 /\ exc' = exc
            ELSE /\ df' = IF df.none THEN df ELSE [df EXCEPT !.columns = r.columns]
                 /\ pc' = "crashed"
                 /\ exc' = Raised(r.exc, "parse_month_cols")
                 /\ UNCHANGED <<start_idx, end_idx>>
  /\ UNCHANGED <<file_type, sheet, header_row, target, target_dt, nprompts,
                 prepay_ledger_code, todo, rows, written, out_idx>>

\* lines 113-123: one turn of the prompt loop. input() at line 114, which
\* is outside the try, returns an answer or raises EOFError when the input
\* has ended. The test of line 120 is a lookup in the column Index. The
\* message of line 123 formats the labels at start_idx and end_idx as dates.
Prompt ==
  /\ pc = "prompt"
  /\ \/ /\ nprompts < MaxPrompts
        /\ \E input \in TargetInputs :
             \E dt \in {target_datetime(input)} :
                 /\ target' = strip(input)
                 /\ nprompts' = nprompts + 1
                 /\ IF ~dt.ok
                    THEN /\ pc' = "prompt"
                         /\ UNCHANGED <<target_dt, exc, df>>
                    ELSE IF in_columns(dt, df)
                    THEN /\ target_dt' = dt
                         /\ df' = fill_engine(df)
                         /\ pc' = "chosen"
                         /\ exc' = exc
                    ELSE IF /\ df.columns[start_idx + 1].k = "date"
                            /\ df.columns[end_idx + 1].k = "date"
                    THEN /\ target_dt' = dt
                         /\ df' = fill_engine(df)
                         /\ pc' = "prompt"
                         /\ exc' = exc
                    ELSE /\ target_dt' = dt
                         /\ df' = fill_engine(df)
                         /\ pc' = "crashed"
                         /\ exc' = Raised("AttributeError", "prompt")
     \/ /\ pc' = "crashed"
        /\ exc' = Raised("EOFError", "prompt")
        /\ UNCHANGED <<target, target_dt, nprompts, df>>
  /\ UNCHANGED <<file_type, sheet, header_row, df0, start_idx, end_idx,
                 prepay_ledger_code, todo, rows, written, out_idx>>

\* lines 128-140: the rows of the target month, and the prepayments
\* ledger code, for which input() at line 131 returns an answer or raises
\* EOFError
EnterPrepayCode ==
  /\ pc = "chosen"
  /\ IF in_columns(target_dt, df)
     THEN \/ \E code \in PrepayCodes :
               /\ todo' = filtered_index(df, target_dt)
               /\ prepay_ledger_code' = upper(code)
               /\ pc' = "rows"
               /\ exc' = exc
          \/ /\ pc' = "crashed"
             /\ exc' = Raised("EOFError", "prepay_code")
             /\ UNCHANGED <<todo, prepay_ledger_code>>
     ELSE \* line 128 raises before anything is asked
          /\ pc' = "crashed"
          /\ exc' = Raised("KeyError", "filter")
          /\ UNCHANGED <<todo, prepay_ledger_code>>
  /\ UNCHANGED <<file_type, sheet, header_row, df, df0, start_idx, end_idx,
                 target, target_dt, nprompts, rows, written, out_idx>>

\* lines 141-150: one turn of the loop, with the answer at the expense
\* ledger code prompt, where input() at line 147 raises EOFError when the
\* input has ended
ProcessRow ==
  /\ pc = "rows"
  /\ todo # <<>>
  /\ \E e \in {row_entry(df, target_dt, Head(todo))} :
         IF e.exc # "none"
         THEN /\ pc' = "crashed"
              /\ exc' = Raised(e.exc, "rows")
              /\ UNCHANGED <<todo, rows>>
         ELSE \/ \E code \in ExpenseCodes :
                   /\ rows' = rows \o journal_lines(entry_date(target_dt), e, upper(code),
                                                    prepay_ledger_code)
                   /\ todo' = Tail(todo)
                   /\ UNCHANGED <<pc, exc>>
              \/ /\ pc' = "crashed"
                 /\ exc' = Raised("EOFError", "expense_code")
                 /\ UNCHANGED <<todo, rows>>
  /\ UNCHANGED <<file_type, sheet, header_row, df, df0, start_idx, end_idx,
                 target, target_dt, nprompts, prepay_ledger_code, written, out_idx>>

\* lines 152-164: the lines are written to the next numbered file of the
\* outputs directory, whatever files the directory holds
WriteOutput ==
  /\ pc = "rows"
  /\ todo = <<>>
  /\ \E listing \in Listings :
       \E r \in {next_index(listing)} :
           IF r.exc = "none"
           THEN /\ written' = TRUE
                /\ out_idx' = r.idx
                /\ pc' = "done"
                /\ exc' = exc
           ELSE /\ pc' = "crashed"
                /\ exc' = Raised(r.exc, "output")
                /\ UNCHANGED <<written, out_idx>>
  /\ UNCHANGED <<file_type, sheet, header_row, df, df0, start_idx, end_idx, target,
                 target_dt, nprompts, prepay_ledger_code, todo, rows>>

Next ==
  \/ LoadFile /\ UNCHANGED <<hvars, cvars>>
  \/ ParseMonthCols /\ UNCHANGED <<hvars, cvars>>
  \/ Prompt /\ UNCHANGED <<hvars, cvars>>
  \/ EnterPrepayCode /\ UNCHANGED <<hvars, cvars>>
  \/ ProcessRow /\ UNCHANGED <<hvars, cvars>>
  \/ WriteOutput /\ UNCHANGED <<hvars, cvars>>

Spec == Init /\ [][Next]_vars

(***************************************************************************)
(* detect_header_row on every small grid                                   *)
(***************************************************************************)
\* The most rows of a grid, and the cells of a row
MaxGridRows == 3
GridCells == {NaN, StrLabel(<<"N", "o", "t", "e", "s">>), StrLabel(<<"I", "n", "v", "o", "i", "c", "e", " ", "N", "o">>), StrLabel(<<"I", "T", "E", "M", "S">>), StrLabel(<<"T", "o", "t", "a", "l", " ", "a", "m", "o", "u", "n", "t">>)}
GridRows == {<<a, b>> : a \in GridCells, b \in GridCells}

InitHeader ==
  /\ ClassifierIdle /\ MainIdle
  /\ raw_df0 \in BoundedSeq(GridRows, MaxGridRows)
  /\ raw_df = raw_df0
  /\ h_result = None
  /\ h_done = FALSE

\* header_row = detect_header_row(raw_df), line 62
DetectHeaderRow ==
  /\ ~h_done
  /\ h_result' = detect_header_row(raw_df)
  /\ h_done' = TRUE
  /\ UNCHANGED <<raw_df0, raw_df>>

NextHeader == DetectHeaderRow /\ UNCHANGED <<cvars, mvars>>
SpecHeader == InitHeader /\ [][NextHeader]_vars

(***************************************************************************)
(* is_month_column and the target prompt's parse on every label            *)
(***************************************************************************)
InitClassifier ==
  /\ HeaderIdle /\ MainIdle
  /\ \E e \in ClassifierInputs :
       c_col = e.col /\ c_form = e.form /\ c_month = e.m /\ c_year = e.y
  /\ c_key = NoDate /\ c_classified = FALSE
  /\ c_tkey = NoDate /\ c_parsed = FALSE

\* is_month_column(col, idx), lines 21-47
Classify ==
  /\ ~c_classified
  /\ c_key' = month_key(c_col)
  /\ c_classified' = TRUE
  /\ UNCHANGED <<c_col, c_form, c_month, c_year, c_tkey, c_parsed>>

\* lines 114-116 with the label's text as the answer
ParseTarget ==
  /\ ~c_parsed
  /\ c_col.k = "str"
  /\ c_tkey' = target_datetime(c_col.s)
  /\ c_parsed' = TRUE
  /\ UNCHANGED <<c_col, c_form, c_month, c_year, c_key, c_classified>>

NextClassifier ==
  \/ Classify /\ UNCHANGED <<hvars, mvars>>
  \/ ParseTarget /\ UNCHANGED <<hvars, mvars>>
SpecClassifier == InitClassifier /\ [][NextClassifier]_vars

(***************************************************************************)
(* Properties                                                              *)
(***************************************************************************)
Min(S) == CHOOSE x \in S : \A y \in S : x <= y
Max(S) == CHOOSE x \in S : \A y \in S : x >= y

IsExcel == file_type \in {"xlsx", "xls"}

\* parse_month_cols was called on a table and has returned or raised
ParsedTable ==
  /\ pc \in {"prompt", "chosen", "rows", "done", "crashed"}
  /\ exc.at # "read_excel_file"
  /\ ~df0.none

\* parse_month_cols has returned its two indices
ParseReturned == ParsedTable /\ exc.at # "parse_month_cols"

\* The prompt loop was left through its break
LoopLeft ==
  \/ pc \in {"chosen", "rows", "done"}
  \/ pc = "crashed" /\ exc.at \in {"filter", "prepay_code", "rows", "expense_code", "output"}

\* A cell holds one of the keywords once lower-cased
KeywordCell(cell) ==
  cell.k # "nan" /\ \E kw \in expected_keywords : Contains(kw, lower(str(cell)))

\* The 0-based indices of the rows of a grid with a keyword cell
KeywordRows(grid) ==
  {i - 1 : i \in {r \in 1..Len(grid) : \E j \in 1..Len(grid[r]) : KeywordCell(grid[r][j])}}

\* C1: detect_header_row returns the index of the first row, top to bottom,
\* in which some non-empty cell, lower-cased, contains "items", "invoice" or
\* "amount"; it returns None when no row has such a cell; the grid is as it
\* was given.
HeaderLocatorFindsFirstKeywordRow ==
  h_done =>
    /\ raw_df = raw_df0
    /\ IF KeywordRows(raw_df0) = {}
       THEN h_result = None
       ELSE h_result = Min(KeywordRows(raw_df0))

\* C1 witness: a grid of three rows whose second and third rows hold a
\* keyword, in upper case in the second, and the second row is returned
HeaderLocatorWitness ==
  /\ h_done
  /\ Len(raw_df0) = 3
  /\ h_result = 1
  /\ raw_df0[2] = <<NaN, StrLabel(<<"I", "T", "E", "M", "S">>)>>
  /\ KeywordRows(raw_df0) = {1, 2}

\* C2: once read_excel_file has reported that no header row was found, main
\* stops: parse_month_cols is not reached, nothing is asked, nothing is
\* written, and no exception is left unhandled.
HeaderNotFoundAborts ==
  (IsExcel /\ pc # "start" /\ header_row = None) =>
    /\ pc # "crashed"
    /\ exc = NoExc
    /\ nprompts = 0
    /\ ~written

\* C3: every encoding of a calendar month (compact, separated, full
\* day-first date, native date) is classified as a month and gets the key
\* (year, month, 1) of the month it denotes, so that two encodings of one
\* month get one key.
MonthEncodingsSameKey ==
  (c_classified /\ c_form # "other") => c_key = Date(c_year, c_month, 1)

\* C3 witness: the full day-first date 12/01/2024 is classified as January 2024
MonthEncodingsWitness ==
  /\ c_classified
  /\ c_form = "full"
  /\ c_col = StrLabel(<<"1", "2", "/", "0", "1", "/", "2", "0", "2", "4">>)
  /\ c_key = Date(2024, 1, 1)

\* C4: the target prompt gives a text the key is_month_column gives a
\* column labelled with that text.
TargetParsedLikeColumn ==
  (c_classified /\ c_parsed) => c_tkey = c_key

\* C5: a table that reaches parse_month_cols or the row filter has no row
\* without an item name and no empty row, whatever file type it was read from.
TableHasItemNames ==
  (pc \in {"loaded", "prompt", "chosen", "rows", "done"} /\ ~df.none
     /\ has_column(df.columns, ItemsLabel)) =>
    \A i \in 1..Len(df.data) :
       /\ ~RowIsEmpty(df.data[i])
       /\ df.data[i][get_loc(df.columns, ItemsLabel)].k # "nan"

\* The labels of the input files that lines 24-43 take for a month, each
\* with the year and month of its key: the month names with a year, the
\* day-first date 01/05/2024, MM-YYYY, the date cells of a spreadsheet and
\* the integer cell 2024, which line 40 reads as nanoseconds after 1970
ExpectedKeys ==
  {<<StrLabel(Chars("May2024")), 2024, 5>>, <<StrLabel(Chars("Jun-24")), 2024, 6>>,
   <<StrLabel(Chars("Jun24")), 2024, 6>>, <<StrLabel(Chars("01/05/2024")), 2024, 5>>,
   <<StrLabel(Chars("May-24")), 2024, 5>>, <<StrLabel(Chars("Jul-24")), 2024, 7>>,
   <<StrLabel(Chars("05-2024")), 2024, 5>>, <<StrLabel(Chars("06-2024")), 2024, 6>>,
   <<DateLabel(2024, 5, 15), 2024, 5>>, <<DateLabel(2024, 6, 1), 2024, 6>>,
   <<IntLabel(2024), 1970, 1>>}
ExpectedMonth(label) == \E e \in ExpectedKeys : e[1] = label
ExpectedLabel(label) ==
  IF ExpectedMonth(label)
  THEN LET e == CHOOSE x \in ExpectedKeys : x[1] = label IN DateLabel(e[2], e[3], 1)
  ELSE label

\* The 0-based positions of the columns of the table given to
\* parse_month_cols whose label is one of those
MonthPositions ==
  IF df0.none THEN {}
  ELSE {i - 1 : i \in {j \in 1..Len(df0.columns) : ExpectedMonth(df0.columns[j])}}

\* C6: parse_month_cols returns the smallest and the largest position of a
\* column classified as a month, in the table's order, so every such column
\* lies between them; with no such column it raises ValueError and the run
\* goes no further.
MonthRangeIsFirstAndLast ==
  \A months \in {MonthPositions} :
    /\ ParseReturned =>
         /\ months # {}
         /\ start_idx = Min(months)
         /\ end_idx = Max(months)
         /\ \A i \in months : start_idx <= i /\ i <= end_idx
    /\ (ParsedTable /\ months = {}) =>
         /\ pc = "crashed"
         /\ exc = Raised("ValueError", "parse_month_cols")
         /\ nprompts = 0 /\ rows = <<>> /\ ~written

\* C6 witness: June stands left of May; the range is (2, 3) in table order
MonthRangeWitness ==
  /\ pc = "prompt"
  /\ df0.columns = HeaderUnordered
  /\ start_idx = 2 /\ end_idx = 3
  /\ df.columns[3] = DateLabel(2024, 6, 1)
  /\ df.columns[4] = DateLabel(2024, 5, 1)

\* C7: a label that denotes no month is classified NotAMonth.
NonMonthLabelsAreNotAMonth ==
  (c_classified /\ c_form = "other") => ~c_key.ok

\* C8: parse_month_cols replaces the label of every column classified as a
\* month by its key and leaves every other label, the number and order of
\* the columns and the cells as they were.
ColumnRewriteFrame ==
  ParsedTable =>
    /\ Len(df.columns) = Len(df0.columns)
    /\ \A i \in 1..Len(df0.columns) : df.columns[i] = ExpectedLabel(df0.columns[i])
    /\ ParseReturned =>
         /\ ExpectedMonth(df0.columns[start_idx + 1])
         /\ ExpectedMonth(df0.columns[end_idx + 1])
    /\ df.data = df0.data

\* C8 witness: "Notes" between two month columns keeps its label
ColumnRewriteWitness ==
  /\ pc = "prompt"
  /\ df0.columns = HeaderNotes
  /\ df.columns = <<ItemsLabel, InvoiceLabel, DateLabel(2024, 5, 1), StrLabel(<<"N", "o", "t", "e", "s">>),
                    DateLabel(2024, 6, 1)>>
  /\ start_idx = 2 /\ end_idx = 4

\* C9: nothing raises at the target prompt, whatever is entered and
\* wherever the input ends; an answer that does not parse or whose month is
\* no column is followed by the prompt again; the loop is left only with a
\* target that is the label of a column.
PromptLoopExit ==
  /\ exc.at # "prompt"
  /\ LoopLeft =>
       /\ target_dt.ok
       /\ IsMidnight(target_dt)
       /\ has_column(df.columns, KeyLabel(target_dt))
       /\ exc.at # "filter"
  /\ (pc = "prompt" /\ nprompts > 0) =>
       \/ ~target_datetime(target).ok
       \/ ~IsMidnight(target_datetime(target))
       \/ ~has_column(df.columns, KeyLabel(target_datetime(target)))

\* The rows whose amount in the target column is present and not 0
Qualifying == filtered_index(df, target_dt)

\* The sum of the Amount fields of journal lines
RECURSIVE SumAmounts(_)
SumAmounts(lines) == IF lines = <<>> THEN 0 ELSE Head(lines).Amount + SumAmounts(Tail(lines))

\* C10: the run ends with two lines for every row whose amount in the
\* target month is present and not 0 and no other line: +|a| on an expense
\* account, -|a| on the prepayments account, a rounded to hundredths, with
\* one date, description and reference; the amounts sum to 0. The table has
\* its "Items" and "Invoice number" columns.
TwoLinesPerRow ==
  ((pc = "done" \/ (pc = "crashed" /\ exc.at = "rows"))
     /\ has_column(df.columns, ItemsLabel) /\ has_column(df.columns, InvoiceLabel)) =>
    /\ Len(rows) = 2 * Len(Qualifying)
    /\ \A k \in 1..Len(Qualifying) :
         LET cell == df.data[Qualifying[k]][get_loc(df.columns, KeyLabel(target_dt))]
             a == IF cell.k = "int" THEN 100 * cell.y ELSE round2(cell.y)
         IN  /\ rows[2 * k - 1].Amount = Abs(a)
             /\ rows[2 * k].Amount = -Abs(a)
             /\ rows[2 * k].Account = prepay_ledger_code
             /\ rows[2 * k - 1].Date = rows[2 * k].Date
             /\ rows[2 * k - 1].Description = rows[2 * k].Description
             /\ rows[2 * k - 1].Reference = rows[2 * k].Reference
    /\ SumAmounts(rows) = 0
====
